---- MODULE Spec2Model ----
(***************************************************************************)
(* A model of gcovr-json-util: the coverage engines of package gcovr       *)
(*   ComputeCoverageIncrease  (pkg/gcovr/diff.go, lines 9-179)             *)
(*   FindUncoveredLines       (pkg/gcovr/diff.go, lines 219-327)           *)
(* the report filter ApplyFilter, and the commands diff and uncovered that *)
(* parse their files, call them and print the formatted result.            *)
(* A Go map is a TLA+ function; "range" over a map visits its keys in an   *)
(* order the runtime picks, so every such loop takes the order as a        *)
(* nondeterministically chosen permutation of the key set.                 *)
(***************************************************************************)
EXTENDS Integers, Sequences, FiniteSets, TLC

VARIABLES
    pc,           \* position of the running engine call
    baseReport,   \* ComputeCoverageIncrease: argument baseReport
    newReport,    \* ComputeCoverageIncrease: argument newReport
    baseFileMap,  \* ComputeCoverageIncrease: file path -> index into baseReport.Files
    i,            \* ComputeCoverageIncrease: index of the loop over newReport.Files
    increases,    \* ComputeCoverageIncrease: result.Increases
    fileIncreases,\* ComputeCoverageIncrease: the records of the File handled last
                  \* (local "increases", the value of processNewFile(&newFile))
    report,       \* FindUncoveredLines and ApplyFilter: argument report
    uncoveredMap, \* FindUncoveredLines: file path -> function name -> line numbers
    funcMetadata, \* FindUncoveredLines: file path -> function name -> demangled name
    k,            \* FindUncoveredLines: index of the running loop
    filePaths,    \* FindUncoveredLines: sorted paths with uncovered functions
    resultFiles,  \* FindUncoveredLines: result.Files
    filterConfig, \* ApplyFilter: argument filterConfig (IsNil when absent); its
                  \* argument report is the variable report
    filterMap,    \* ApplyFilter: normalized target path -> allowed identifiers
    fi,           \* ApplyFilter: index of the loop over report.Files
    allowedFunctions, \* ApplyFilter: the allowed set of the File handled last
    filteredFile, \* ApplyFilter: the Files the File handled last added to the
                  \* result (none or one)
    filtered,     \* ApplyFilter: the report it returns
    err,          \* the error value returned by the engine or the command
                  \* ("nil" on success)
    argv,         \* the command line of the running command (cmd "none": the
                  \* engines are called directly)
    fs,           \* the files the command line names: file name -> content
    stdout,       \* what the command has printed: its lines, each the
                  \* sequence of its pieces
    calls         \* the calls of the engine that have returned before the
                  \* running one: their arguments and results

vars == <<pc, baseReport, newReport, baseFileMap, i, increases, fileIncreases,
          report, uncoveredMap, funcMetadata, k, filePaths, resultFiles,
          filterConfig, filterMap, fi, allowedFunctions, filteredFile, filtered, err,
          argv, fs, stdout, calls>>

diffVars == <<baseReport, newReport, baseFileMap, i, increases, fileIncreases>>
uncoveredVars == <<report, uncoveredMap, funcMetadata, k, filePaths, resultFiles>>
filterVars == <<filterConfig, filterMap, fi, allowedFunctions, filteredFile, filtered>>
commandVars == <<argv, fs, stdout>>

(***************************************************************************)
(* Bounds of the inputs.                                                   *)
(***************************************************************************)
MaxLineNo == 2
MaxCount == 1
MaxLines == 2
MaxNewFiles == 2
MaxBaseFiles == 1
MaxUncLines == 2
MaxUncFiles == 2
MaxNamedLines == 1
MaxFunctions == 2
MaxFltFiles == 2
MaxFltLines == 2
MaxFltFunctions == 2
MaxTargets == 2
MaxIdents == 1
MaxWideLineNo == 3
MaxWideLines == 3
MaxCalls == 2
MaxCmdFiles == 2
MaxCmdLines == 1
MaxCmdTargets == 1

\* File paths, listed in the byte-wise order sort.Strings puts them in.
PathOrder == <<"a.cpp", "b.cpp">>
Paths == {PathOrder[n] : n \in DOMAIN PathOrder}
FuncNames == {"f", "g"}
LineNumbers == 1..MaxLineNo
Counts == 0..MaxCount

\* type Line: "f" has a Function entry in every File, "g" has none.
LineSet == [LineNumber : LineNumbers, FunctionName : FuncNames, Count : Counts]
FunctionList == << [Name |-> "f", DemangledName |-> "f()"] >>

SeqsUpTo(S, n) == UNION {[1..m -> S] : m \in 0..n}

RECURSIVE SumUpTo(_, _)
SumUpTo(lens, j) == IF j = 0 THEN 0 ELSE lens[j] + SumUpTo(lens, j - 1)

\* type GcovrReport: File j has the path paths[j] and the next lens[j] Lines of lines.
MakeReport(paths, lens, lines) ==
    [FormatVersion |-> "0.5",
     Files |-> [j \in DOMAIN paths |->
                  [FilePath  |-> paths[j],
                   Lines     |-> SubSeq(lines, SumUpTo(lens, j - 1) + 1, SumUpTo(lens, j)),
                   Functions |-> FunctionList]]]

\* r is a GcovrReport of at most maxFiles Files holding at most maxLines Lines in all.
IsReport(r, maxFiles, maxLines) ==
    \E nf \in 0..maxFiles :
    \E paths \in [1..nf -> Paths], lens \in [1..nf -> 0..maxLines] :
        /\ SumUpTo(lens, nf) <= maxLines
        /\ \E lines \in [1..SumUpTo(lens, nf) -> LineSet] :
              r = MakeReport(paths, lens, lines)

\* type Function: the entries a File may list for "f", with and without a
\* demangled name ("g" has no entry in any File).
FunctionSet == [Name : {"f"}, DemangledName : {"", "f()"}]
FunctionLists == SeqsUpTo(FunctionSet, MaxFunctions)

\* The report r with fls[j] as the Functions of File j.
WithFunctions(r, fls) ==
    [r EXCEPT !.Files = [j \in DOMAIN r.Files |->
                            [r.Files[j] EXCEPT !.Functions = fls[j]]]]

\* r is a GcovrReport as in IsReport whose Files list any Functions of FunctionLists.
IsNamedReport(r, maxFiles, maxLines) ==
    \E nf \in 0..maxFiles :
    \E paths \in [1..nf -> Paths], lens \in [1..nf -> 0..maxLines] :
        /\ SumUpTo(lens, nf) <= maxLines
        /\ \E lines \in [1..SumUpTo(lens, nf) -> LineSet] :
           \E fls \in [1..nf -> FunctionLists] :
              r = WithFunctions(MakeReport(paths, lens, lines), fls)

\* The nil *FilterConfig.
NilConfig == [IsNil |-> TRUE, Targets |-> << >>]

\* No command is running: the engine is called directly.
NoCommand ==
    /\ argv = [cmd |-> "none", flags |-> << >>, args |-> << >>]
    /\ fs = << >>
    /\ stdout = << >>

\* No call of ApplyFilter is running.
NoFilterCall ==
    /\ filterConfig = NilConfig
    /\ filterMap = << >>
    /\ fi = 0
    /\ allowedFunctions = {}
    /\ filteredFile = << >>
    /\ filtered = [FormatVersion |-> "", Files |-> << >>]

(***************************************************************************)
(* Go maps.                                                                *)
(***************************************************************************)
EmptyMap == <<>>
MapPut(m, key, v) == [x \in (DOMAIN m) \cup {key} |-> IF x = key THEN v ELSE m[x]]

\* The orders in which "range" may visit the key set S.
RangeOrders(S) ==
    {s \in [1..Cardinality(S) -> S] : \A a, b \in 1..Cardinality(S) : s[a] = s[b] => a = b}

\* m[key] for a map of int values: the zero value when the key is absent.
IntAt(m, key) == IF key \in DOMAIN m THEN m[key] ELSE 0
\* m[key] for a map of string values: the zero value when the key is absent.
StrAt(m, key) == IF key \in DOMAIN m THEN m[key] ELSE ""

(***************************************************************************)
(* ComputeCoverageIncrease and its helpers                                 *)
(***************************************************************************)
\* Mutant of buildLineCoverageLoop: the first Line of a (function, line number)
\* pair keeps its count, later ones are skipped.
RECURSIVE buildLineCoverageLoop_FirstWins(_, _, _)
buildLineCoverageLoop_FirstWins(lines, n, result) ==
    IF n > Len(lines) THEN result
    ELSE LET line == lines[n]
             r1 == IF line.FunctionName \in DOMAIN result
                   THEN result
                   ELSE MapPut(result, line.FunctionName, EmptyMap)
             r2 == IF line.LineNumber \in DOMAIN r1[line.FunctionName]
                   THEN r1
                   ELSE MapPut(r1, line.FunctionName,
                               MapPut(r1[line.FunctionName], line.LineNumber, line.Count))
         IN buildLineCoverageLoop_FirstWins(lines, n + 1, r2)

RECURSIVE buildLineCoverageLoop(_, _, _)
buildLineCoverageLoop(lines, n, result) ==
    IF n > Len(lines) THEN result
    ELSE LET line == lines[n]
             r1 == IF line.FunctionName \in DOMAIN result
                   THEN result
                   ELSE MapPut(result, line.FunctionName, EmptyMap)
             r2 == MapPut(r1, line.FunctionName,
                          MapPut(r1[line.FunctionName], line.LineNumber, line.Count))
         IN buildLineCoverageLoop(lines, n + 1, r2)

\* function -> line_number -> count
buildLineCoverageMap(file) == buildLineCoverageLoop(file.Lines, 1, EmptyMap)

RECURSIVE buildFunctionNameLoop(_, _, _)
buildFunctionNameLoop(functions, n, result) ==
    IF n > Len(functions) THEN result
    ELSE buildFunctionNameLoop(functions, n + 1,
             MapPut(result, functions[n].Name, functions[n].DemangledName))

\* mangled -> demangled
buildFunctionNameMap(file) == buildFunctionNameLoop(file.Functions, 1, EmptyMap)

RECURSIVE getTotalFunctionLinesLoop(_, _, _)
getTotalFunctionLinesLoop(lines, funcName, n) ==
    IF n > Len(lines) THEN 0
    ELSE (IF lines[n].FunctionName = funcName THEN 1 ELSE 0)
         + getTotalFunctionLinesLoop(lines, funcName, n + 1)

\* Mutant of getTotalFunctionLines: the count starts behind the first Line.
getTotalFunctionLines_SkipFirst(file, funcName) ==
    getTotalFunctionLinesLoop(file.Lines, funcName, 2)

getTotalFunctionLines(file, funcName) == getTotalFunctionLinesLoop(file.Lines, funcName, 1)

\* Mutant of DemangledOrMangled: the fallback to the mangled name is missing.
DemangledOrMangled_NoFallback(names, funcName) == StrAt(names, funcName)

\* demangledName := names[funcName]; if demangledName == "" { demangledName = funcName }
DemangledOrMangled(names, funcName) ==
    IF StrAt(names, funcName) = "" THEN funcName ELSE StrAt(names, funcName)

\* Mutant of funcLinesLoop: the test "line.Count > 0" is dropped.
RECURSIVE funcLinesLoop_AnyCount(_, _, _)
funcLinesLoop_AnyCount(lines, n, funcLines) ==
    IF n > Len(lines) THEN funcLines
    ELSE LET line == lines[n]
             old == IF line.FunctionName \in DOMAIN funcLines
                    THEN funcLines[line.FunctionName] ELSE <<>>
         IN funcLinesLoop_AnyCount(lines, n + 1,
                MapPut(funcLines, line.FunctionName, Append(old, line.LineNumber)))

\* processNewFile, first loop: function -> line numbers of its Lines with Count > 0
RECURSIVE funcLinesLoop(_, _, _)
funcLinesLoop(lines, n, funcLines) ==
    IF n > Len(lines) THEN funcLines
    ELSE LET line == lines[n]
             old == IF line.FunctionName \in DOMAIN funcLines
                    THEN funcLines[line.FunctionName] ELSE <<>>
         IN funcLinesLoop(lines, n + 1,
                IF line.Count > 0
                THEN MapPut(funcLines, line.FunctionName, Append(old, line.LineNumber))
                ELSE funcLines)

NewFileRecord(file, funcName, lineNumbers) ==
    [File                 |-> file.FilePath,
     FunctionName         |-> funcName,
     DemangledName        |-> DemangledOrMangled(buildFunctionNameMap(file), funcName),
     LinesIncreased       |-> Len(lineNumbers),
     TotalLines           |-> getTotalFunctionLines(file, funcName),
     IncreasedLineNumbers |-> lineNumbers,
     OldCoveredLines      |-> 0,
     NewCoveredLines      |-> Len(lineNumbers)]

\* processNewFile; funcOrder is the order "range funcLines" visits the functions in.
processNewFile(file, funcOrder) ==
    LET funcLines == funcLinesLoop(file.Lines, 1, EmptyMap)
    IN [n \in 1..Len(funcOrder) |->
            NewFileRecord(file, funcOrder[n], funcLines[funcOrder[n]])]

\* Mutant of CompareOneFunction: "baseCount == 0 &&" is dropped from the test
\* of an increased line.
CompareOneFunction_NoBaseCheck(baseCoverage, newCoverage, newFile, funcName, lineOrder) ==
    LET newLines == newCoverage[funcName]
        exists == funcName \in DOMAIN baseCoverage
        baseCount(lineNum) == IF exists THEN IntAt(baseCoverage[funcName], lineNum) ELSE 0
        increasedLines == SelectSeq(lineOrder, LAMBDA n : newLines[n] > 0)
        oldCoveredCount == Len(SelectSeq(lineOrder, LAMBDA n : baseCount(n) > 0))
        newCoveredCount == Len(SelectSeq(lineOrder, LAMBDA n : newLines[n] > 0))
    IN IF Len(increasedLines) > 0
       THEN << [File                 |-> newFile.FilePath,
                FunctionName         |-> funcName,
                DemangledName        |-> DemangledOrMangled(buildFunctionNameMap(newFile), funcName),
                LinesIncreased       |-> Len(increasedLines),
                TotalLines           |-> getTotalFunctionLines(newFile, funcName),
                IncreasedLineNumbers |-> increasedLines,
                OldCoveredLines      |-> oldCoveredCount,
                NewCoveredLines      |-> newCoveredCount] >>
       ELSE << >>

\* Mutant of CompareOneFunction: newCoveredCount is incremented where the line
\* is appended to increasedLines instead of where newCount > 0.
CompareOneFunction_NewCountInIncrease(baseCoverage, newCoverage, newFile, funcName, lineOrder) ==
    LET newLines == newCoverage[funcName]
        exists == funcName \in DOMAIN baseCoverage
        baseCount(lineNum) == IF exists THEN IntAt(baseCoverage[funcName], lineNum) ELSE 0
        increasedLines ==
            SelectSeq(lineOrder, LAMBDA n : baseCount(n) = 0 /\ newLines[n] > 0)
        oldCoveredCount == Len(SelectSeq(lineOrder, LAMBDA n : baseCount(n) > 0))
    IN IF Len(increasedLines) > 0
       THEN << [File                 |-> newFile.FilePath,
                FunctionName         |-> funcName,
                DemangledName        |-> DemangledOrMangled(buildFunctionNameMap(newFile), funcName),
                LinesIncreased       |-> Len(increasedLines),
                TotalLines           |-> getTotalFunctionLines(newFile, funcName),
                IncreasedLineNumbers |-> increasedLines,
                OldCoveredLines      |-> oldCoveredCount,
                NewCoveredLines      |-> Len(increasedLines)] >>
       ELSE << >>

\* Mutant of CompareOneFunction: oldCoveredCount is incremented only for the
\* lines that are covered in new as well.
CompareOneFunction_OldCountOfCovered(baseCoverage, newCoverage, newFile, funcName, lineOrder) ==
    LET newLines == newCoverage[funcName]
        exists == funcName \in DOMAIN baseCoverage
        baseCount(lineNum) == IF exists THEN IntAt(baseCoverage[funcName], lineNum) ELSE 0
        increasedLines ==
            SelectSeq(lineOrder, LAMBDA n : baseCount(n) = 0 /\ newLines[n] > 0)
        oldCoveredCount ==
            Len(SelectSeq(lineOrder, LAMBDA n : baseCount(n) > 0 /\ newLines[n] > 0))
        newCoveredCount == Len(SelectSeq(lineOrder, LAMBDA n : newLines[n] > 0))
    IN IF Len(increasedLines) > 0
       THEN << [File                 |-> newFile.FilePath,
                FunctionName         |-> funcName,
                DemangledName        |-> DemangledOrMangled(buildFunctionNameMap(newFile), funcName),
                LinesIncreased       |-> Len(increasedLines),
                TotalLines           |-> getTotalFunctionLines(newFile, funcName),
                IncreasedLineNumbers |-> increasedLines,
                OldCoveredLines      |-> oldCoveredCount,
                NewCoveredLines      |-> newCoveredCount] >>
       ELSE << >>

\* compareFunctions, the body of the loop over newCoverage for one function;
\* lineOrder is the order "range newLines" visits the line numbers in.
\* The result is the sequence of records appended (none or one).
CompareOneFunction(baseCoverage, newCoverage, newFile, funcName, lineOrder) ==
    LET newLines == newCoverage[funcName]
        exists == funcName \in DOMAIN baseCoverage
        baseCount(lineNum) == IF exists THEN IntAt(baseCoverage[funcName], lineNum) ELSE 0
        increasedLines ==
            SelectSeq(lineOrder, LAMBDA n : baseCount(n) = 0 /\ newLines[n] > 0)
        oldCoveredCount == Len(SelectSeq(lineOrder, LAMBDA n : baseCount(n) > 0))
        newCoveredCount == Len(SelectSeq(lineOrder, LAMBDA n : newLines[n] > 0))
    IN IF Len(increasedLines) > 0
       THEN << [File                 |-> newFile.FilePath,
                FunctionName         |-> funcName,
                DemangledName        |-> DemangledOrMangled(buildFunctionNameMap(newFile), funcName),
                LinesIncreased       |-> Len(increasedLines),
                TotalLines           |-> getTotalFunctionLines(newFile, funcName),
                IncreasedLineNumbers |-> increasedLines,
                OldCoveredLines      |-> oldCoveredCount,
                NewCoveredLines      |-> newCoveredCount] >>
       ELSE << >>

RECURSIVE compareFunctionsLoop(_, _, _, _, _, _)
compareFunctionsLoop(baseCoverage, newCoverage, newFile, funcOrder, lineOrders, n) ==
    IF n > Len(funcOrder) THEN << >>
    ELSE CompareOneFunction(baseCoverage, newCoverage, newFile,
                            funcOrder[n], lineOrders[funcOrder[n]])
         \o compareFunctionsLoop(baseCoverage, newCoverage, newFile,
                                 funcOrder, lineOrders, n + 1)

\* Mutant of compareFunctions: the functions of the base File that the new File
\* lost are reported too, as if the diff were symmetric.
compareFunctions_WithBaseOnly(baseFile, newFile, funcOrder, lineOrders) ==
    LET baseCoverage == buildLineCoverageMap(baseFile)
        newCoverage == buildLineCoverageMap(newFile)
        lost == (DOMAIN baseCoverage) \ (DOMAIN newCoverage)
        lostOrder == CHOOSE o \in RangeOrders(lost) : TRUE
    IN compareFunctionsLoop(baseCoverage, newCoverage, newFile, funcOrder, lineOrders, 1)
       \o [n \in 1..Len(lostOrder) |->
             [File                 |-> newFile.FilePath,
              FunctionName         |-> lostOrder[n],
              DemangledName        |-> DemangledOrMangled(buildFunctionNameMap(newFile), lostOrder[n]),
              LinesIncreased       |-> 0,
              TotalLines           |-> getTotalFunctionLines(newFile, lostOrder[n]),
              IncreasedLineNumbers |-> << >>,
              OldCoveredLines      |-> Cardinality(DOMAIN baseCoverage[lostOrder[n]]),
              NewCoveredLines      |-> 0]]

\* compareFunctions; funcOrder and lineOrders are the orders of its two map walks.
compareFunctions(baseFile, newFile, funcOrder, lineOrders) ==
    compareFunctionsLoop(buildLineCoverageMap(baseFile), buildLineCoverageMap(newFile),
                         newFile, funcOrder, lineOrders, 1)

\* The orders the inner map walk of compareFunctions may take, per function.
LineOrdersOf(newCoverage) ==
    {lo \in [DOMAIN newCoverage ->
                 UNION {RangeOrders(DOMAIN newCoverage[fn]) : fn \in DOMAIN newCoverage}] :
        \A fn \in DOMAIN newCoverage : lo[fn] \in RangeOrders(DOMAIN newCoverage[fn])}

\* ComputeCoverageIncrease, lines 15-18: index the base Files by path.
BuildBaseFileMap ==
    /\ pc = "diff_start"
    /\ baseFileMap' =
         [p \in {baseReport.Files[n].FilePath : n \in DOMAIN baseReport.Files} |->
            CHOOSE n \in DOMAIN baseReport.Files :
                /\ baseReport.Files[n].FilePath = p
                /\ \A m \in DOMAIN baseReport.Files :
                      baseReport.Files[m].FilePath = p => m <= n]
    /\ i' = 1
    /\ pc' = "diff_loop"
    /\ UNCHANGED <<commandVars, calls, baseReport, newReport, increases, fileIncreases, uncoveredVars, filterVars, err>>

\* Mutant of ProcessNewFile: the records of the File are put in front of
\* result.Increases instead of behind it.
ProcessNewFile_InFront ==
    /\ pc = "diff_loop"
    /\ i <= Len(newReport.Files)
    /\ newReport.Files[i].FilePath \notin DOMAIN baseFileMap
    /\ \E funcOrder \in RangeOrders(DOMAIN funcLinesLoop(newReport.Files[i].Lines, 1, EmptyMap)) :
          fileIncreases' = processNewFile(newReport.Files[i], funcOrder)
    /\ increases' = fileIncreases' \o increases
    /\ i' = i + 1
    /\ UNCHANGED <<commandVars, calls, pc, baseReport, newReport, baseFileMap, uncoveredVars, filterVars, err>>

\* ComputeCoverageIncrease, lines 21-27: a File of new whose path base lacks.
ProcessNewFile ==
    /\ pc = "diff_loop"
    /\ i <= Len(newReport.Files)
    /\ newReport.Files[i].FilePath \notin DOMAIN baseFileMap
    /\ \E funcOrder \in RangeOrders(DOMAIN funcLinesLoop(newReport.Files[i].Lines, 1, EmptyMap)) :
          fileIncreases' = processNewFile(newReport.Files[i], funcOrder)
    /\ increases' = increases \o fileIncreases'
    /\ i' = i + 1
    /\ UNCHANGED <<commandVars, calls, pc, baseReport, newReport, baseFileMap, uncoveredVars, filterVars, err>>

\* ComputeCoverageIncrease, lines 21-22 and 29-31: a File present in both reports.
CompareFunctions ==
    /\ pc = "diff_loop"
    /\ i <= Len(newReport.Files)
    /\ newReport.Files[i].FilePath \in DOMAIN baseFileMap
    /\ LET newFile == newReport.Files[i]
           baseFile == baseReport.Files[baseFileMap[newFile.FilePath]]
           newCoverage == buildLineCoverageMap(newFile)
       IN \E funcOrder \in RangeOrders(DOMAIN newCoverage) :
          \E lineOrders \in LineOrdersOf(newCoverage) :
             fileIncreases' = compareFunctions(baseFile, newFile, funcOrder, lineOrders)
    /\ increases' = increases \o fileIncreases'
    /\ i' = i + 1
    /\ UNCHANGED <<commandVars, calls, pc, baseReport, newReport, baseFileMap, uncoveredVars, filterVars, err>>

\* ComputeCoverageIncrease, line 34: return result, nil
DiffReturn ==
    /\ pc = "diff_loop"
    /\ i > Len(newReport.Files)
    /\ pc' = "diff_done"
    /\ err' = "nil"
    /\ UNCHANGED <<commandVars, calls, diffVars, uncoveredVars, filterVars>>

InitDiff ==
    /\ pc = "diff_start"
    /\ IsReport(baseReport, MaxBaseFiles, MaxLines)
    /\ IsReport(newReport, MaxNewFiles, MaxLines)
    /\ baseFileMap = EmptyMap
    /\ i = 0
    /\ increases = << >>
    /\ fileIncreases = << >>
    /\ report = [FormatVersion |-> "0.5", Files |-> << >>]
    /\ uncoveredMap = EmptyMap
    /\ funcMetadata = EmptyMap
    /\ k = 0
    /\ filePaths = << >>
    /\ resultFiles = << >>
    /\ NoFilterCall
    /\ err = "unset"
    /\ NoCommand
    /\ calls = << >>

NextDiff == BuildBaseFileMap \/ ProcessNewFile \/ CompareFunctions \/ DiffReturn

SpecDiff == InitDiff /\ [][NextDiff]_vars

(***************************************************************************)
(* FindUncoveredLines                                                      *)
(***************************************************************************)
\* Position of a path in the byte-wise order of strings.
PathRank(p) == CHOOSE n \in DOMAIN PathOrder : PathOrder[n] = p

\* Mutant of SortInts: the slice is left in the order of the Lines.
SortInts_Unsorted(s) == s

\* sort.Ints: s in ascending order.
RECURSIVE InsertInt(_, _)
InsertInt(x, s) ==
    IF s = << >> THEN << x >>
    ELSE IF x <= Head(s) THEN << x >> \o s
    ELSE << Head(s) >> \o InsertInt(x, Tail(s))

RECURSIVE SortInts(_)
SortInts(s) == IF s = << >> THEN << >> ELSE InsertInt(Head(s), SortInts(Tail(s)))

\* sort.Strings: the paths of s in ascending byte-wise order.
SortStrings(s) ==
    LET ranks == SortInts([n \in DOMAIN s |-> PathRank(s[n])])
    IN [n \in DOMAIN s |-> PathOrder[ranks[n]]]

\* First pass, lines 236-238: funcMetadata[file.FilePath] of one File.
RECURSIVE storeFunctionMetadata(_, _, _)
storeFunctionMetadata(functions, n, meta) ==
    IF n > Len(functions) THEN meta
    ELSE storeFunctionMetadata(functions, n + 1,
             MapPut(meta, functions[n].Name, functions[n].DemangledName))

\* Mutant of collectUncovered: the test "line.Count == 0" is dropped.
RECURSIVE collectUncovered_EveryLine(_, _, _)
collectUncovered_EveryLine(lines, n, byFunc) ==
    IF n > Len(lines) THEN byFunc
    ELSE LET line == lines[n]
             old == IF line.FunctionName \in DOMAIN byFunc
                    THEN byFunc[line.FunctionName] ELSE << >>
         IN collectUncovered_EveryLine(lines, n + 1,
                MapPut(byFunc, line.FunctionName, Append(old, line.LineNumber)))

\* First pass, lines 241-251: uncoveredMap[file.FilePath] of one File.
RECURSIVE collectUncovered(_, _, _)
collectUncovered(lines, n, byFunc) ==
    IF n > Len(lines) THEN byFunc
    ELSE LET line == lines[n]
             old == IF line.FunctionName \in DOMAIN byFunc
                    THEN byFunc[line.FunctionName] ELSE << >>
         IN collectUncovered(lines, n + 1,
                IF line.Count = 0
                THEN MapPut(byFunc, line.FunctionName, Append(old, line.LineNumber))
                ELSE byFunc)

\* Lines 291-301: totalLines and coveredLines of funcName in fileObj.
RECURSIVE countLines(_, _, _)
countLines(lines, funcName, n) ==
    IF n > Len(lines) THEN [total |-> 0, covered |-> 0]
    ELSE LET rest == countLines(lines, funcName, n + 1)
         IN IF lines[n].FunctionName = funcName
            THEN [total   |-> rest.total + 1,
                  covered |-> rest.covered + (IF lines[n].Count > 0 THEN 1 ELSE 0)]
            ELSE rest

\* Lines 285-319: the records of one file path, in the order funcOrder of the map walk.
RECURSIVE functionRecords(_, _, _, _, _)
functionRecords(fileObj, funcUncovered, meta, funcOrder, n) ==
    IF n > Len(funcOrder) THEN << >>
    ELSE LET funcName == funcOrder[n]
             uncoveredLines == funcUncovered[funcName]
             stats == countLines(fileObj.Lines, funcName, 1)
             rest == functionRecords(fileObj, funcUncovered, meta, funcOrder, n + 1)
         IN IF Len(uncoveredLines) = 0 THEN rest
            ELSE << [FunctionName         |-> funcName,
                     DemangledName        |-> DemangledOrMangled(meta, funcName),
                     UncoveredLineNumbers |-> SortInts(uncoveredLines),
                     TotalLines           |-> stats.total,
                     CoveredLines         |-> stats.covered] >> \o rest

\* Lines 273-279: the first File of the report with this path (0 stands for nil).
findFileObj(files, filePath) ==
    IF \E n \in DOMAIN files : files[n].FilePath = filePath
    THEN CHOOSE n \in DOMAIN files :
            /\ files[n].FilePath = filePath
            /\ \A m \in DOMAIN files : files[m].FilePath = filePath => n <= m
    ELSE 0

\* First pass, lines 231-252, one File of the report.
CollectFile ==
    /\ pc = "unc_first"
    /\ k <= Len(report.Files)
    /\ LET file == report.Files[k]
       IN /\ uncoveredMap' = MapPut(uncoveredMap, file.FilePath,
                                    collectUncovered(file.Lines, 1, EmptyMap))
          /\ funcMetadata' = MapPut(funcMetadata, file.FilePath,
                                    storeFunctionMetadata(file.Functions, 1, EmptyMap))
    /\ k' = k + 1
    /\ UNCHANGED <<commandVars, calls, pc, report, filePaths, resultFiles, diffVars, filterVars, err>>

\* Lines 255-261: the paths with uncovered functions, sorted.
SortFilePaths ==
    /\ pc = "unc_first"
    /\ k > Len(report.Files)
    /\ \E order \in RangeOrders({p \in DOMAIN uncoveredMap : DOMAIN uncoveredMap[p] # {}}) :
          filePaths' = SortStrings(order)
    /\ k' = 1
    /\ pc' = "unc_second"
    /\ UNCHANGED <<commandVars, calls, report, uncoveredMap, funcMetadata, resultFiles, diffVars, filterVars, err>>

\* Second pass, lines 264-324, one file path.
BuildFileResult ==
    /\ pc = "unc_second"
    /\ k <= Len(filePaths)
    /\ LET filePath == filePaths[k]
           funcUncovered == uncoveredMap[filePath]
           fileObj == findFileObj(report.Files, filePath)
       IN IF fileObj = 0
          THEN UNCHANGED <<resultFiles, uncoveredMap>>
          ELSE \E funcOrder \in RangeOrders(DOMAIN funcUncovered) :
                 LET fns == functionRecords(report.Files[fileObj], funcUncovered,
                                            funcMetadata[filePath], funcOrder, 1)
                 IN /\ resultFiles' =
                         IF Len(fns) > 0
                         THEN Append(resultFiles,
                                     [FilePath |-> filePath, UncoveredFunctions |-> fns])
                         ELSE resultFiles
                    \* sort.Ints sorts the slice the map entry shares
                    /\ uncoveredMap' =
                         MapPut(uncoveredMap, filePath,
                                [fn \in DOMAIN funcUncovered |-> SortInts(funcUncovered[fn])])
    /\ k' = k + 1
    /\ UNCHANGED <<commandVars, calls, pc, report, funcMetadata, filePaths, diffVars, filterVars, err>>

\* Mutant of UncoveredReturn: an empty result is returned as an error.
UncoveredReturn_ErrWhenEmpty ==
    /\ pc = "unc_second"
    /\ k > Len(filePaths)
    /\ pc' = "unc_done"
    /\ err' = IF resultFiles = << >> THEN "no uncovered lines" ELSE "nil"
    /\ UNCHANGED <<commandVars, calls, uncoveredVars, diffVars, filterVars>>

\* Line 326: return result, nil
UncoveredReturn ==
    /\ pc = "unc_second"
    /\ k > Len(filePaths)
    /\ pc' = "unc_done"
    /\ err' = "nil"
    /\ UNCHANGED <<commandVars, calls, uncoveredVars, diffVars, filterVars>>

InitUncovered ==
    /\ pc = "unc_first"
    /\ IsReport(report, MaxUncFiles, MaxUncLines)
    /\ uncoveredMap = EmptyMap
    /\ funcMetadata = EmptyMap
    /\ k = 1
    /\ filePaths = << >>
    /\ resultFiles = << >>
    /\ baseReport = [FormatVersion |-> "0.5", Files |-> << >>]
    /\ newReport = [FormatVersion |-> "0.5", Files |-> << >>]
    /\ baseFileMap = EmptyMap
    /\ i = 0
    /\ increases = << >>
    /\ fileIncreases = << >>
    /\ NoFilterCall
    /\ err = "unset"
    /\ NoCommand
    /\ calls = << >>

NextUncovered == CollectFile \/ SortFilePaths \/ BuildFileResult \/ UncoveredReturn

SpecUncovered == InitUncovered /\ [][NextUncovered]_vars

(***************************************************************************)
(* Both engines on reports whose Files list any Functions: a call of       *)
(* ComputeCoverageIncrease or a call of FindUncoveredLines.                *)
(***************************************************************************)
InitEnginesDiff ==
    /\ pc = "diff_start"
    /\ IsNamedReport(baseReport, MaxBaseFiles, MaxNamedLines)
    /\ IsNamedReport(newReport, MaxNewFiles, MaxNamedLines)
    /\ baseFileMap = EmptyMap
    /\ i = 0
    /\ increases = << >>
    /\ fileIncreases = << >>
    /\ report = [FormatVersion |-> "0.5", Files |-> << >>]
    /\ uncoveredMap = EmptyMap
    /\ funcMetadata = EmptyMap
    /\ k = 0
    /\ filePaths = << >>
    /\ resultFiles = << >>
    /\ NoFilterCall
    /\ err = "unset"
    /\ NoCommand
    /\ calls = << >>

InitEnginesUncovered ==
    /\ pc = "unc_first"
    /\ IsNamedReport(report, MaxUncFiles, MaxUncLines)
    /\ uncoveredMap = EmptyMap
    /\ funcMetadata = EmptyMap
    /\ k = 1
    /\ filePaths = << >>
    /\ resultFiles = << >>
    /\ baseReport = [FormatVersion |-> "0.5", Files |-> << >>]
    /\ newReport = [FormatVersion |-> "0.5", Files |-> << >>]
    /\ baseFileMap = EmptyMap
    /\ i = 0
    /\ increases = << >>
    /\ fileIncreases = << >>
    /\ NoFilterCall
    /\ err = "unset"
    /\ NoCommand
    /\ calls = << >>

InitEngines == InitEnginesDiff \/ InitEnginesUncovered

NextEngines ==
    \/ BuildBaseFileMap \/ ProcessNewFile \/ CompareFunctions \/ DiffReturn
    \/ CollectFile \/ SortFilePaths \/ BuildFileResult \/ UncoveredReturn

SpecEngines == InitEngines /\ [][NextEngines]_vars

(***************************************************************************)
(* ApplyFilter, as section 4.2 of the specification defines it (Filter     *)
(* Engine), with the signatures its tests call it by.  File paths, names    *)
(* and identifiers are strings; where the filter looks inside one (at the  *)
(* separators of a path, at the "(" of a demangled name) it reads Tokens   *)
(* of it, so that "f()" is read as <<"f", "(", ")">>.                      *)
(***************************************************************************)
ReportPaths == {"/abs/demo.cc", "src/./other.cc"}
TargetPaths == {"demo.cc", "src\\other.cc"}

\* Mangled names, and the Function entries a File may list: "f()" and "g()".
Mangled == {"_Z1fv", "_Z1gv"}
FilterFunctionSet ==
    { [Name |-> "_Z1fv", DemangledName |-> "f()"],
      [Name |-> "_Z1gv", DemangledName |-> "g()"] }
FilterLineSet == [LineNumber : LineNumbers, FunctionName : Mangled, Count : {1}]
\* The identifiers a Target may allow: "f", "f()", "_Z1fv" and "F".
Idents == {"f", "f()", "_Z1fv", "F"}
IdentSets == {A \in SUBSET Idents : Cardinality(A) <= MaxIdents}
FormatVersions == {"0.5", "0.6"}

\* type TargetFile, type FilterConfig
TargetSet == [File : TargetPaths, Functions : IdentSets]
FilterConfigs ==
    {NilConfig} \cup {[IsNil |-> FALSE, Targets |-> t] : t \in SeqsUpTo(TargetSet, MaxTargets)}

\* The mangled name is the primary key of a Function within its File.
UniqueNames(functions) ==
    \A a, b \in DOMAIN functions : functions[a].Name = functions[b].Name => a = b

\* r is a report of at most maxFiles Files holding at most maxLines Lines and
\* maxFunctions Functions in all.
IsFilterReport(r, maxFiles, maxLines, maxFunctions) ==
    \E nf \in 0..maxFiles, v \in FormatVersions :
    \E paths \in [1..nf -> ReportPaths], lens \in [1..nf -> 0..maxLines],
       flens \in [1..nf -> 0..maxFunctions] :
        /\ SumUpTo(lens, nf) <= maxLines
        /\ SumUpTo(flens, nf) <= maxFunctions
        /\ \E lines \in [1..SumUpTo(lens, nf) -> FilterLineSet] :
           \E fns \in [1..SumUpTo(flens, nf) -> FilterFunctionSet] :
              LET fls == [j \in 1..nf |->
                            SubSeq(fns, SumUpTo(flens, j - 1) + 1, SumUpTo(flens, j))]
              IN /\ \A j \in 1..nf : UniqueNames(fls[j])
                 /\ r = [WithFunctions(MakeReport(paths, lens, lines), fls)
                            EXCEPT !.FormatVersion = v]

\* The string s as the sequence of its separators, parentheses and the runs
\* of other characters between them; a string without any is one run.
Tokens(s) ==
    CASE s = "" -> << >>
      [] s = "/abs/demo.cc" -> <<"/", "abs", "/", "demo.cc">>
      [] s = "src/./other.cc" -> <<"src", "/", ".", "/", "other.cc">>
      [] s = "src\\other.cc" -> <<"src", "\\", "other.cc">>
      [] s = "f()" -> <<"f", "(", ")">>
      [] s = "g()" -> <<"g", "(", ")">>
      [] OTHER -> <<s>>

IsSeparator(t) == t \in {"/", "\\"}
IsAbs(path) == Tokens(path) # << >> /\ IsSeparator(Tokens(path)[1])
Segments(path) == SelectSeq(Tokens(path), LAMBDA t : ~IsSeparator(t))

\* Collapses the "." and ".." segments of names, from position n on.
RECURSIVE CleanLoop(_, _, _, _)
CleanLoop(abs, names, n, out) ==
    IF n > Len(names) THEN out
    ELSE CleanLoop(abs, names, n + 1,
            IF names[n] = "." THEN out
            ELSE IF names[n] = ".."
                 THEN IF out # << >> /\ out[Len(out)] # ".."
                      THEN SubSeq(out, 1, Len(out) - 1)
                      ELSE IF abs THEN out ELSE Append(out, "..")
                 ELSE Append(out, names[n]))

\* Path normalization: one form of separator, no "." or ".." segments.
normalizeFilePath(path) ==
    [abs |-> IsAbs(path), segs |-> CleanLoop(IsAbs(path), Segments(path), 1, << >>)]

\* The final segment of a normalized path.
baseName(norm) ==
    IF norm.segs = << >> THEN (IF norm.abs THEN "/" ELSE ".")
    ELSE norm.segs[Len(norm.segs)]

\* Mutant of baseIdentifier: the name is not cut at its parameter list.
baseIdentifier_Uncut(demangledName) == Tokens(demangledName)

\* The base identifier: the part of a demangled name before its first "(",
\* the whole name when it has none.
baseIdentifier(demangledName) ==
    LET name == Tokens(demangledName)
        parens == {n \in DOMAIN name : name[n] = "("}
    IN IF parens = {} THEN name
       ELSE SubSeq(name, 1, (CHOOSE n \in parens : \A m \in parens : n <= m) - 1)

\* Function matching: by mangled name, full demangled name or base identifier.
shouldIncludeFunction(demangledName, mangledName, allowed) ==
    \/ mangledName \in allowed
    \/ demangledName \in allowed
    \/ \E ident \in allowed : Tokens(ident) = baseIdentifier(demangledName)

\* Mutant of lineAllowed: the Line's mangled name is tested alone, without the
\* join against the File's Function list.
lineAllowed_MangledOnly(file, line, allowed) == line.FunctionName \in allowed

\* Line filtering: the Line's function name is joined against the File's
\* Function list; without an entry the Line is excluded.
lineAllowed(file, line, allowed) ==
    \E n \in DOMAIN file.Functions :
        /\ file.Functions[n].Name = line.FunctionName
        /\ shouldIncludeFunction(file.Functions[n].DemangledName,
                                 file.Functions[n].Name, allowed)

\* Mutant of fileMatches: the base filenames are not compared.
fileMatches_FullPathOnly(normalizedPath, targetPath) == normalizedPath = targetPath

\* File matching policy: equal normalized paths, or equal base filenames.
fileMatches(normalizedPath, targetPath) ==
    \/ normalizedPath = targetPath
    \/ baseName(normalizedPath) = baseName(targetPath)

\* Mutant of targetIdents: every entry of the index holds the identifiers of
\* all Targets.
targetIdents_OfAllTargets(targets, key, merge) ==
    UNION {targets[n].Functions : n \in DOMAIN targets}

\* The allowed identifiers the index holds for the normalized path key: those
\* of all Targets of that path (merge), or those of the last one.
targetIdents(targets, key, merge) ==
    LET same == {n \in DOMAIN targets : normalizeFilePath(targets[n].File) = key}
    IN IF merge THEN UNION {targets[n].Functions : n \in same}
       ELSE targets[(CHOOSE n \in same : \A m \in same : m <= n)].Functions

\* The matching index: normalized target path -> allowed identifiers.
filterIndex(targets, merge) ==
    [key \in {normalizeFilePath(targets[n].File) : n \in DOMAIN targets} |->
        targetIdents(targets, key, merge)]

\* Mutant of newFilteredReport: the format version is not copied.
newFilteredReport_NoVersion(r) == [FormatVersion |-> "", Files |-> << >>]

\* The report the active filter starts from.
newFilteredReport(r) == [FormatVersion |-> r.FormatVersion, Files |-> << >>]

\* Mutant of keepFile: a File without retained Functions is kept too.
keepFile_Always(functions, lines) == TRUE

\* A File contributes to the result only with a retained Function.
keepFile(functions, lines) == Len(functions) > 0

\* Mutant of FilterPassThrough: a fresh, empty report is returned.
FilterPassThrough_Empty ==
    /\ pc = "flt_start"
    /\ (filterConfig.IsNil \/ Len(filterConfig.Targets) = 0)
    /\ filtered' = newFilteredReport(report)
    /\ pc' = "flt_done"
    /\ UNCHANGED <<commandVars, calls, report, filterConfig, filterMap, fi, allowedFunctions, filteredFile,
                   uncoveredMap, funcMetadata, k, filePaths, resultFiles, diffVars, err>>

\* filterSpec absent or without targets: the input report is returned.
FilterPassThrough ==
    /\ pc = "flt_start"
    /\ (filterConfig.IsNil \/ Len(filterConfig.Targets) = 0)
    /\ filtered' = report
    /\ pc' = "flt_done"
    /\ UNCHANGED <<commandVars, calls, report, filterConfig, filterMap, fi, allowedFunctions, filteredFile,
                   uncoveredMap, funcMetadata, k, filePaths, resultFiles, diffVars, err>>

\* Active filter: the matching index is built from the targets.
BuildFilterMap ==
    /\ pc = "flt_start"
    /\ ~filterConfig.IsNil
    /\ Len(filterConfig.Targets) > 0
    /\ \E merge \in BOOLEAN : filterMap' = filterIndex(filterConfig.Targets, merge)
    /\ filtered' = newFilteredReport(report)
    /\ fi' = 1
    /\ pc' = "flt_loop"
    /\ UNCHANGED <<commandVars, calls, report, filterConfig, allowedFunctions, filteredFile,
                   uncoveredMap, funcMetadata, k, filePaths, resultFiles, diffVars, err>>

\* The entries of the index that the File's path matches.
matchingKeys(index, path) ==
    {key \in DOMAIN index : fileMatches(normalizeFilePath(path), key)}

\* A File no Target matches is dropped.
DropFile ==
    /\ pc = "flt_loop"
    /\ fi <= Len(report.Files)
    /\ matchingKeys(filterMap, report.Files[fi].FilePath) = {}
    /\ allowedFunctions' = {}
    /\ filteredFile' = << >>
    /\ fi' = fi + 1
    /\ UNCHANGED <<commandVars, calls, pc, report, filterConfig, filterMap, filtered,
                   uncoveredMap, funcMetadata, k, filePaths, resultFiles, diffVars, err>>

\* A matched File: its Functions and Lines are filtered by the allowed set of
\* a matching entry, and it is kept when a Function is left.
FilterFile ==
    /\ pc = "flt_loop"
    /\ fi <= Len(report.Files)
    /\ LET file == report.Files[fi]
       IN \E key \in matchingKeys(filterMap, file.FilePath) :
             LET allowed == filterMap[key]
                 functions == SelectSeq(file.Functions,
                                 LAMBDA fn : shouldIncludeFunction(fn.DemangledName,
                                                                   fn.Name, allowed))
                 lines == SelectSeq(file.Lines,
                                    LAMBDA line : lineAllowed(file, line, allowed))
             IN /\ allowedFunctions' = allowed
                /\ filteredFile' =
                     IF keepFile(functions, lines)
                     THEN << [FilePath  |-> file.FilePath,
                              Lines     |-> lines,
                              Functions |-> functions] >>
                     ELSE << >>
                /\ filtered' = [filtered EXCEPT !.Files = @ \o filteredFile']
    /\ fi' = fi + 1
    /\ UNCHANGED <<commandVars, calls, pc, report, filterConfig, filterMap,
                   uncoveredMap, funcMetadata, k, filePaths, resultFiles, diffVars, err>>

\* The filtered report is returned.
FilterReturn ==
    /\ pc = "flt_loop"
    /\ fi > Len(report.Files)
    /\ pc' = "flt_done"
    /\ UNCHANGED <<commandVars, calls, filterVars, uncoveredVars, diffVars, err>>

InitFilter ==
    /\ pc = "flt_start"
    /\ IsFilterReport(report, MaxFltFiles, MaxFltLines, MaxFltFunctions)
    /\ filterConfig \in FilterConfigs
    /\ filterMap = << >>
    /\ fi = 0
    /\ allowedFunctions = {}
    /\ filteredFile = << >>
    /\ filtered = [FormatVersion |-> "", Files |-> << >>]
    /\ uncoveredMap = EmptyMap
    /\ funcMetadata = EmptyMap
    /\ k = 0
    /\ filePaths = << >>
    /\ resultFiles = << >>
    /\ baseReport = [FormatVersion |-> "0.5", Files |-> << >>]
    /\ newReport = [FormatVersion |-> "0.5", Files |-> << >>]
    /\ baseFileMap = EmptyMap
    /\ i = 0
    /\ increases = << >>
    /\ fileIncreases = << >>
    /\ err = "unset"
    /\ NoCommand
    /\ calls = << >>

NextFilter == FilterPassThrough \/ BuildFilterMap \/ DropFile \/ FilterFile \/ FilterReturn

SpecFilter == InitFilter /\ [][NextFilter]_vars

(***************************************************************************)
(* Vocabulary of the properties, defined on the reports themselves.        *)
(***************************************************************************)
MaxOf(S) == CHOOSE x \in S : \A y \in S : y <= x

\* The Lines of file that carry (line number n, function name f).
LineIndexes(file, f, n) ==
    {m \in DOMAIN file.Lines :
        file.Lines[m].LineNumber = n /\ file.Lines[m].FunctionName = f}
HasLine(file, f, n) == LineIndexes(file, f, n) # {}
HasFunction(file, f) == \E m \in DOMAIN file.Lines : file.Lines[m].FunctionName = f

\* The count of (n, f) in file: that of the last such Line, 0 when there is none.
LastCount(file, f, n) ==
    IF HasLine(file, f, n) THEN file.Lines[MaxOf(LineIndexes(file, f, n))].Count ELSE 0

InBase(p) == \E m \in DOMAIN baseReport.Files : baseReport.Files[m].FilePath = p
BaseFileOf(p) ==
    baseReport.Files[MaxOf({m \in DOMAIN baseReport.Files : baseReport.Files[m].FilePath = p})]
\* The base count of (p, f, n): 0 when the file, the function or the line is missing.
BaseCount(p, f, n) == IF InBase(p) THEN LastCount(BaseFileOf(p), f, n) ELSE 0

\* n is newly covered in function f of the new File: base count 0, new count > 0.
NewlyCovered(file, f, n) ==
    /\ HasLine(file, f, n)
    /\ BaseCount(file.FilePath, f, n) = 0
    /\ LastCount(file, f, n) > 0

Occurrences(s, x) == Cardinality({j \in DOMAIN s : s[j] = x})
ElementsOf(s) == {s[j] : j \in DOMAIN s}
RecordsOf(recs, f) == {j \in DOMAIN recs : recs[j].FunctionName = f}

\* The loop of ComputeCoverageIncrease is about to handle newReport.Files[i].
DiffStep == pc = "diff_loop" /\ i <= Len(newReport.Files)
\* The loop has handled newReport.Files[i - 1]: HandledFile is that File and
\* Appended the records it contributed to result.Increases.
Handled == pc \in {"diff_loop", "diff_done"} /\ i > 1
HandledFile == newReport.Files[i - 1]
Appended == fileIncreases

(***************************************************************************)
(* C1: for every File of new, every function f and line number n with a    *)
(* Line (n, f) whose base count is 0 and whose new count is > 0, n appears *)
(* exactly once in IncreasedLineNumbers of the one record the File         *)
(* contributes for f -- for all inputs, repeated (n, f) pairs and Files    *)
(* absent from base included.                                              *)
(***************************************************************************)
C1_ExactlyOnce ==
    Handled =>
        LET file == HandledFile
        IN \A f \in FuncNames, n \in LineNumbers :
              NewlyCovered(file, f, n) =>
                 /\ Cardinality(RecordsOf(Appended, f)) = 1
                 /\ \A j \in RecordsOf(Appended, f) :
                       Occurrences(Appended[j].IncreasedLineNumbers, n) = 1

\* C1 on the Files whose path base has: there the line is listed exactly once.
C1_ExactlyOnceInBase ==
    (Handled /\ InBase(HandledFile.FilePath)) =>
        LET file == HandledFile
        IN \A f \in FuncNames, n \in LineNumbers :
              NewlyCovered(file, f, n) =>
                 /\ Cardinality(RecordsOf(Appended, f)) = 1
                 /\ \A j \in RecordsOf(Appended, f) :
                       Occurrences(Appended[j].IncreasedLineNumbers, n) = 1

InNew(p, f) ==
    \E n \in DOMAIN newReport.Files :
        newReport.Files[n].FilePath = p /\ HasFunction(newReport.Files[n], f)

C3_OnlyFunctionsOfNew ==
    \A j \in DOMAIN increases : InNew(increases[j].File, increases[j].FunctionName)

\* C3 witness: base has a function with a covered line that new lacks, new has
\* that file, and the finished diff reports another function of it.
C3_Witness ==
    /\ pc = "diff_done"
    /\ increases # << >>
    /\ \E m \in DOMAIN baseReport.Files : \E f \in FuncNames :
          /\ HasFunction(baseReport.Files[m], f)
          /\ ~InNew(baseReport.Files[m].FilePath, f)
          /\ \E j \in DOMAIN increases : increases[j].File = baseReport.Files[m].FilePath

(***************************************************************************)
(* C4: for a File of new whose path base lacks, the diff emits exactly one *)
(* record for each function with a Line of count > 0 and none for the      *)
(* others; the record has OldCoveredLines = 0, NewCoveredLines = the       *)
(* number of the function's Lines with count > 0, and IncreasedLineNumbers *)
(* = the line numbers of exactly those Lines.                              *)
(***************************************************************************)
CoveredLinesOf(file, f) ==
    SelectSeq(file.Lines, LAMBDA line : line.FunctionName = f /\ line.Count > 0)

C4_NewFileSemantics ==
    (Handled /\ ~InBase(HandledFile.FilePath)) =>
        LET file == HandledFile
        IN /\ \A j \in DOMAIN Appended :
                 Appended[j].File = file.FilePath /\ Appended[j].FunctionName \in FuncNames
           /\ \A f \in FuncNames :
                 LET covered == CoveredLinesOf(file, f)
                 IN IF covered = << >>
                    THEN RecordsOf(Appended, f) = {}
                    ELSE /\ Cardinality(RecordsOf(Appended, f)) = 1
                         /\ \A j \in RecordsOf(Appended, f) :
                               /\ Appended[j].OldCoveredLines = 0
                               /\ Appended[j].NewCoveredLines = Len(covered)
                               /\ Appended[j].IncreasedLineNumbers =
                                     [m \in DOMAIN covered |-> covered[m].LineNumber]

\* C4 witness: a finished diff of a new-only File with a covered and an
\* uncovered Line of one function, and another function without covered Lines.
C4_Witness ==
    /\ pc = "diff_done"
    /\ \E n \in DOMAIN newReport.Files :
          LET file == newReport.Files[n]
          IN /\ ~InBase(file.FilePath)
             /\ \E f, g \in FuncNames :
                   /\ CoveredLinesOf(file, f) # << >>
                   /\ HasFunction(file, g)
                   /\ CoveredLinesOf(file, g) = << >>
                   /\ \E j \in DOMAIN increases : increases[j].FunctionName = f

(***************************************************************************)
(* C5: for a File that base and new both have, the diff emits a record for *)
(* a function iff it has a newly covered line; the record has              *)
(* OldCoveredLines = the number of the function's new line numbers with    *)
(* base count > 0, NewCoveredLines = the number of them with new count >   *)
(* 0, TotalLines = the number of Lines of the new File with that function  *)
(* name.                                                                   *)
(***************************************************************************)
LineNumbersOf(file, f) == {n \in LineNumbers : HasLine(file, f, n)}

C5_ExistingFileSemantics ==
    (Handled /\ InBase(HandledFile.FilePath)) =>
        LET file == HandledFile
            p == file.FilePath
        IN /\ \A j \in DOMAIN Appended :
                 Appended[j].File = p /\ Appended[j].FunctionName \in FuncNames
           /\ \A f \in FuncNames :
                 IF \E n \in LineNumbers : NewlyCovered(file, f, n)
                 THEN /\ Cardinality(RecordsOf(Appended, f)) = 1
                      /\ \A j \in RecordsOf(Appended, f) :
                            /\ Appended[j].OldCoveredLines =
                                  Cardinality({n \in LineNumbersOf(file, f) :
                                                  BaseCount(p, f, n) > 0})
                            /\ Appended[j].NewCoveredLines =
                                  Cardinality({n \in LineNumbersOf(file, f) :
                                                  LastCount(file, f, n) > 0})
                            /\ Appended[j].TotalLines =
                                  Cardinality({m \in DOMAIN file.Lines :
                                                  file.Lines[m].FunctionName = f})
                 ELSE RecordsOf(Appended, f) = {}

\* C5 witness: a finished diff with a record for a File of both reports whose
\* function had a covered line in base already and gained another one.
C5_Witness ==
    /\ pc = "diff_done"
    /\ \E j \in DOMAIN increases :
          /\ InBase(increases[j].File)
          /\ increases[j].OldCoveredLines > 0
          /\ increases[j].NewCoveredLines > increases[j].OldCoveredLines
          /\ increases[j].TotalLines = increases[j].NewCoveredLines

(***************************************************************************)
(* C6: the diff is deterministic: the records a File contributes, their    *)
(* order and the order of IncreasedLineNumbers in each are the same for    *)
(* every order in which the map walks of the step may run.                 *)
(***************************************************************************)
C6_Deterministic ==
    DiffStep =>
        LET file == newReport.Files[i]
        IN IF file.FilePath \in DOMAIN baseFileMap
           THEN LET baseFile == baseReport.Files[baseFileMap[file.FilePath]]
                    newCoverage == buildLineCoverageMap(file)
                IN \A fo1, fo2 \in RangeOrders(DOMAIN newCoverage) :
                   \A lo1, lo2 \in LineOrdersOf(newCoverage) :
                      compareFunctions(baseFile, file, fo1, lo1)
                         = compareFunctions(baseFile, file, fo2, lo2)
           ELSE LET funcLines == funcLinesLoop(file.Lines, 1, EmptyMap)
                IN \A fo1, fo2 \in RangeOrders(DOMAIN funcLines) :
                      processNewFile(file, fo1) = processNewFile(file, fo2)

(***************************************************************************)
(* Vocabulary of the properties of FindUncoveredLines.                     *)
(***************************************************************************)
\* The function records of the result, as <<position of the File entry,
\* position of the record in it>>.
UncoveredRecords ==
    UNION {{<<a, b>> : b \in DOMAIN resultFiles[a].UncoveredFunctions} :
              a \in DOMAIN resultFiles}
RecordAt(ab) == resultFiles[ab[1]].UncoveredFunctions[ab[2]]

DistinctPaths ==
    \A a, b \in DOMAIN report.Files :
        report.Files[a].FilePath = report.Files[b].FilePath => a = b

\* Some File of the report with path p has a Line of count 0 (of function f,
\* with line number n).
HasUncoveredLine(p) ==
    \E a \in DOMAIN report.Files :
        /\ report.Files[a].FilePath = p
        /\ \E m \in DOMAIN report.Files[a].Lines : report.Files[a].Lines[m].Count = 0
HasUncoveredLineOf(p, f) ==
    \E a \in DOMAIN report.Files :
        /\ report.Files[a].FilePath = p
        /\ \E m \in DOMAIN report.Files[a].Lines :
              /\ report.Files[a].Lines[m].Count = 0
              /\ report.Files[a].Lines[m].FunctionName = f
IsUncoveredLine(p, f, n) ==
    \E a \in DOMAIN report.Files :
        /\ report.Files[a].FilePath = p
        /\ \E m \in LineIndexes(report.Files[a], f, n) : report.Files[a].Lines[m].Count = 0

(***************************************************************************)
(* C7: in every function record of the result,                             *)
(* TotalLines = CoveredLines + len(UncoveredLineNumbers), for every report *)
(* (repeated Lines and repeated file paths included).                      *)
(***************************************************************************)
C7_CountIdentity ==
    \A ab \in UncoveredRecords :
        RecordAt(ab).TotalLines
           = RecordAt(ab).CoveredLines + Len(RecordAt(ab).UncoveredLineNumbers)

\* C7 on the reports whose Files have pairwise distinct paths.
C7_CountIdentityDistinctPaths == DistinctPaths => C7_CountIdentity

(***************************************************************************)
(* C8 as claimed: in every function record UncoveredLineNumbers is         *)
(* strictly ascending.                                                     *)
(***************************************************************************)
C8_StrictlyAscending ==
    \A ab \in UncoveredRecords :
        LET u == RecordAt(ab).UncoveredLineNumbers
        IN \A x, y \in DOMAIN u : x < y => u[x] < u[y]

\* No File of the report has two Lines of count 0 with the same line number
\* and function name.
NoRepeatedUncoveredLine ==
    \A a \in DOMAIN report.Files :
    \A x, y \in DOMAIN report.Files[a].Lines :
        LET lx == report.Files[a].Lines[x]
            ly == report.Files[a].Lines[y]
        IN (lx.Count = 0 /\ ly.Count = 0 /\ lx.LineNumber = ly.LineNumber
               /\ lx.FunctionName = ly.FunctionName) => x = y

(***************************************************************************)
(* C8 as amended: in every function record UncoveredLineNumbers is         *)
(* ascending (no element is less than the one before it), whatever the     *)
(* order of Lines in the input; it is strictly ascending when no File has  *)
(* two zero-count Lines with the same line number and function name.       *)
(***************************************************************************)
C8_Ascending ==
    /\ \A ab \in UncoveredRecords :
          LET u == RecordAt(ab).UncoveredLineNumbers
          IN \A x, y \in DOMAIN u : x < y => u[x] <= u[y]
    /\ NoRepeatedUncoveredLine => C8_StrictlyAscending

\* C8 witness: a finished call whose input lists a function's uncovered line 2
\* before its uncovered line 1, and whose record lists <<1, 2>>.
C8_Witness ==
    /\ pc = "unc_done"
    /\ \E ab \in UncoveredRecords : RecordAt(ab).UncoveredLineNumbers = <<1, 2>>
    /\ \E a \in DOMAIN report.Files : \E x, y \in DOMAIN report.Files[a].Lines :
          /\ x < y
          /\ report.Files[a].Lines[x] = [LineNumber |-> 2, FunctionName |-> "f", Count |-> 0]
          /\ report.Files[a].Lines[y] = [LineNumber |-> 1, FunctionName |-> "f", Count |-> 0]
    /\ Len(report.Files) = 1

(***************************************************************************)
(* C9: the File entries of the result are sorted ascending by file path;   *)
(* a File of the input appears in the result iff it has a Line of count 0; *)
(* every File entry carries at least one function record.                  *)
(***************************************************************************)
C9_SortedFilesWithUncovered ==
    pc = "unc_done" =>
        /\ \A a, b \in DOMAIN resultFiles :
              a < b => PathRank(resultFiles[a].FilePath) < PathRank(resultFiles[b].FilePath)
        /\ \A p \in Paths :
              (\E a \in DOMAIN resultFiles : resultFiles[a].FilePath = p) <=> HasUncoveredLine(p)
        /\ \A a \in DOMAIN resultFiles : resultFiles[a].UncoveredFunctions # << >>

\* C9 on the reports whose Files have pairwise distinct paths.
C9_DistinctPaths == DistinctPaths => C9_SortedFilesWithUncovered

(***************************************************************************)
(* C10: line number n is listed in the record of function f under file p   *)
(* iff the input File p has a Line (n, f) of count 0; a function with such *)
(* a Line gets exactly one record under its File, any other function none. *)
(***************************************************************************)
C10_ExactUncovered ==
    pc = "unc_done" =>
        \A p \in Paths, f \in FuncNames :
            LET recs == {ab \in UncoveredRecords :
                            /\ resultFiles[ab[1]].FilePath = p
                            /\ RecordAt(ab).FunctionName = f}
            IN /\ Cardinality(recs) = (IF HasUncoveredLineOf(p, f) THEN 1 ELSE 0)
               /\ \A n \in LineNumbers :
                     (\E ab \in recs : n \in ElementsOf(RecordAt(ab).UncoveredLineNumbers))
                        <=> IsUncoveredLine(p, f, n)

\* C10 on the reports whose Files have pairwise distinct paths.
C10_DistinctPaths == DistinctPaths => C10_ExactUncovered

(***************************************************************************)
(* C11: a report with zero Files, or one in which every Line has count >   *)
(* 0, makes FindUncoveredLines return a result with zero Files and a nil   *)
(* error.                                                                  *)
(***************************************************************************)
EveryLineCovered ==
    \A a \in DOMAIN report.Files : \A m \in DOMAIN report.Files[a].Lines :
        report.Files[a].Lines[m].Count > 0

C11_NothingUncovered ==
    (pc = "unc_done" /\ (Len(report.Files) = 0 \/ EveryLineCovered)) =>
        (resultFiles = << >> /\ err = "nil")

\* C11 witness: a finished call on a report with two Files, each
\* with a Line, all of count > 0.
C11_Witness ==
    /\ pc = "unc_done"
    /\ Len(report.Files) = 2
    /\ \A a \in DOMAIN report.Files : report.Files[a].Lines # << >>
    /\ EveryLineCovered
    /\ resultFiles = << >>
    /\ err = "nil"

(***************************************************************************)
(* Vocabulary of the demangled-name claims.                                *)
(***************************************************************************)
EntriesOf(file, f) == {n \in DOMAIN file.Functions : file.Functions[n].Name = f}

\* The File whose Lines FindUncoveredLines reports under path p.
LastFileOf(p) ==
    report.Files[MaxOf({a \in DOMAIN report.Files : report.Files[a].FilePath = p})]

\* d is, for function f of file, what the claim says: the demangled name of a
\* Function entry of f, and f itself when the File has no entry of f.
IsEntryNameOrMangled(file, f, d) ==
    IF EntriesOf(file, f) = {}
    THEN d = f
    ELSE \E n \in EntriesOf(file, f) : d = file.Functions[n].DemangledName

\* d is the demangled name of the last Function entry of f in file when that
\* is not empty, and f itself otherwise.
IsLastNonEmptyNameOrMangled(file, f, d) ==
    IF EntriesOf(file, f) = {}
          \/ file.Functions[MaxOf(EntriesOf(file, f))].DemangledName = ""
    THEN d = f
    ELSE d = file.Functions[MaxOf(EntriesOf(file, f))].DemangledName

\* A function with a newly covered line gets a record from the File handled
\* last, and one with a Line of count 0 in the File reported under its path
\* gets a record there: whether or not the File lists a Function entry of it.
ReportedWithoutEntry ==
    /\ Handled =>
          \A f \in FuncNames :
             (IF InBase(HandledFile.FilePath)
              THEN \E n \in LineNumbers : NewlyCovered(HandledFile, f, n)
              ELSE CoveredLinesOf(HandledFile, f) # << >>)
                => RecordsOf(Appended, f) # {}
    /\ pc = "unc_done" =>
          \A p \in Paths, f \in FuncNames :
             ((\E a \in DOMAIN report.Files : report.Files[a].FilePath = p)
                 /\ \E m \in DOMAIN LastFileOf(p).Lines :
                       /\ LastFileOf(p).Lines[m].FunctionName = f
                       /\ LastFileOf(p).Lines[m].Count = 0)
                => \E ab \in UncoveredRecords :
                      /\ resultFiles[ab[1]].FilePath = p
                      /\ RecordAt(ab).FunctionName = f

(***************************************************************************)
(* C12 as claimed: in every Increase Record and every uncovered function   *)
(* record, DemangledName is the demangled name of the Function entry of    *)
(* the same File whose mangled name is the record's FunctionName, and the  *)
(* mangled FunctionName itself when the File has no such entry; a Line     *)
(* whose function has no Function entry is still analysed and reported.    *)
(***************************************************************************)
C12_DemangledFallback ==
    /\ Handled =>
          \A j \in DOMAIN Appended :
             IsEntryNameOrMangled(HandledFile, Appended[j].FunctionName,
                                  Appended[j].DemangledName)
    /\ \A ab \in UncoveredRecords :
          IsEntryNameOrMangled(LastFileOf(resultFiles[ab[1]].FilePath),
                               RecordAt(ab).FunctionName, RecordAt(ab).DemangledName)
    /\ ReportedWithoutEntry

(***************************************************************************)
(* C12 as amended: in every Increase Record and every uncovered function   *)
(* record, DemangledName is the demangled name of the last Function entry  *)
(* of the same File whose mangled name is the record's FunctionName when   *)
(* that demangled name is not empty, and the mangled FunctionName itself   *)
(* when the File has no such entry or the entry's demangled name is empty; *)
(* a Line whose function has no Function entry is still analysed and       *)
(* reported.                                                               *)
(***************************************************************************)
C12_DemangledFallbackNonEmpty ==
    /\ Handled =>
          \A j \in DOMAIN Appended :
             IsLastNonEmptyNameOrMangled(HandledFile, Appended[j].FunctionName,
                                         Appended[j].DemangledName)
    /\ \A ab \in UncoveredRecords :
          IsLastNonEmptyNameOrMangled(LastFileOf(resultFiles[ab[1]].FilePath),
                                      RecordAt(ab).FunctionName,
                                      RecordAt(ab).DemangledName)
    /\ ReportedWithoutEntry

\* C12 witness: a finished call of FindUncoveredLines with a record of "f" that
\* falls back to "f" because the last of the File's entries of "f" has an empty
\* demangled name, and a record of "g", which has no entry.
C12_Witness ==
    /\ pc = "unc_done"
    /\ \E ab, cd \in UncoveredRecords :
          /\ RecordAt(ab).FunctionName = "f" /\ RecordAt(ab).DemangledName = "f"
          /\ Cardinality(EntriesOf(LastFileOf(resultFiles[ab[1]].FilePath), "f")) = 2
          /\ RecordAt(cd).FunctionName = "g" /\ RecordAt(cd).DemangledName = "g"

(***************************************************************************)
(* Vocabulary of the properties of ApplyFilter.                            *)
(***************************************************************************)
FilterActive == ~filterConfig.IsNil /\ Len(filterConfig.Targets) > 0
FilterDone == pc = "flt_done"
\* The loop of ApplyFilter has handled report.Files[fi - 1]; filteredFile holds
\* what that File added to the result.
FltHandled == pc \in {"flt_loop", "flt_done"} /\ fi > 1
FltHandledFile == report.Files[fi - 1]

\* The Target matches the File path, by the file matching policy.
TargetMatches(target, path) ==
    \/ normalizeFilePath(path) = normalizeFilePath(target.File)
    \/ baseName(normalizeFilePath(path)) = baseName(normalizeFilePath(target.File))
MatchedTargets(path) ==
    {n \in DOMAIN filterConfig.Targets : TargetMatches(filterConfig.Targets[n], path)}

\* b is the base identifier of the demangled name d: the part of d before
\* its first "(".
IsBaseIdentifierOf(b, d) ==
    LET bt == Tokens(b)
        dt == Tokens(d)
    IN /\ Len(bt) <= Len(dt)
       /\ \A n \in DOMAIN bt : bt[n] = dt[n] /\ bt[n] # "("
       /\ (Len(bt) = Len(dt) \/ dt[Len(bt) + 1] = "(")

\* The identifier names the Function: by mangled name, full demangled name or
\* base identifier.
IdentMatches(ident, fn) ==
    \/ ident = fn.Name
    \/ ident = fn.DemangledName
    \/ IsBaseIdentifierOf(ident, fn.DemangledName)
PassesAllowed(fn, allowed) == \E ident \in allowed : IdentMatches(ident, fn)

IsSubsetSeq(s, t) == ElementsOf(s) \subseteq ElementsOf(t)

(***************************************************************************)
(* C13: filter pass-through: ApplyFilter with a nil filter or a filter     *)
(* with zero targets returns a report equal to the input: same format      *)
(* version, same Files in the same order, each with the same Lines and     *)
(* Functions.                                                              *)
(***************************************************************************)
C13_PassThrough ==
    (FilterDone /\ ~FilterActive) =>
        /\ filtered.FormatVersion = report.FormatVersion
        /\ Len(filtered.Files) = Len(report.Files)
        /\ \A a \in DOMAIN report.Files :
              /\ filtered.Files[a].FilePath = report.Files[a].FilePath
              /\ filtered.Files[a].Lines = report.Files[a].Lines
              /\ filtered.Files[a].Functions = report.Files[a].Functions

\* C13 witness: a finished call with a filter of zero targets on a report of
\* two Files, one with Lines and one with Functions.
C13_Witness ==
    /\ FilterDone
    /\ ~filterConfig.IsNil
    /\ filterConfig.Targets = << >>
    /\ Len(report.Files) = 2
    /\ \E a, b \in DOMAIN report.Files :
          report.Files[a].Lines # << >> /\ report.Files[b].Functions # << >>
    /\ filtered = report

(***************************************************************************)
(* C14: filter reduction: with a filter of at least one target, each File  *)
(* of the output has the path of an input File, its Functions are a subset *)
(* of that File's Functions and its Lines a subset of that File's Lines,   *)
(* and every retained Function matches an allowed identifier of a Target   *)
(* matched by its File (by mangled name, full demangled name or base       *)
(* identifier).                                                            *)
(***************************************************************************)
C14_Reduction ==
    FilterActive =>
        \A o \in DOMAIN filtered.Files :
            LET out == filtered.Files[o]
            IN /\ \E a \in DOMAIN report.Files :
                     /\ out.FilePath = report.Files[a].FilePath
                     /\ IsSubsetSeq(out.Functions, report.Files[a].Functions)
                     /\ IsSubsetSeq(out.Lines, report.Files[a].Lines)
               /\ \A fn \in ElementsOf(out.Functions) :
                     \E t \in MatchedTargets(out.FilePath) :
                         PassesAllowed(fn, filterConfig.Targets[t].Functions)

\* C14 witness: a finished call whose filter has a Target that matches no File
\* of the output, and whose output has a File with fewer Functions and fewer
\* Lines than the input File.
C14_Witness ==
    /\ FilterDone
    /\ FilterActive
    /\ \E t \in DOMAIN filterConfig.Targets :
          /\ filterConfig.Targets[t].Functions # {}
          /\ \A o \in DOMAIN filtered.Files : t \notin MatchedTargets(filtered.Files[o].FilePath)
    /\ \E o \in DOMAIN filtered.Files, a \in DOMAIN report.Files :
          /\ filtered.Files[o].FilePath = report.Files[a].FilePath
          /\ Len(filtered.Files[o].Functions) = 1
          /\ Len(report.Files[a].Functions) = 2
          /\ Len(filtered.Files[o].Lines) = 1
          /\ Len(report.Files[a].Lines) = 2

(***************************************************************************)
(* C15: file matching policy: a File is matched by a Target iff their      *)
(* normalized full paths are equal or their base filenames are equal (so   *)
(* the Target "demo.cc" matches the File "/abs/demo.cc"): every File of    *)
(* the output is matched by a Target, a File matched by no Target adds     *)
(* nothing to the output, and a File that is matched, with a Function that *)
(* each Target matching it allows, is in the output.                       *)
(***************************************************************************)
C15_FileMatching ==
    /\ FilterActive =>
          \A o \in DOMAIN filtered.Files : MatchedTargets(filtered.Files[o].FilePath) # {}
    /\ (FilterActive /\ FltHandled) =>
          LET file == FltHandledFile
              matched == MatchedTargets(file.FilePath)
          IN /\ matched = {} => filteredFile = << >>
             /\ (/\ matched # {}
                 /\ \A t \in matched : \E fn \in ElementsOf(file.Functions) :
                       PassesAllowed(fn, filterConfig.Targets[t].Functions))
                   => /\ Len(filteredFile) = 1
                      /\ filteredFile[1].FilePath = file.FilePath

\* C15 witness: a finished call with the one Target "demo.cc", which keeps the
\* File "/abs/demo.cc" (equal base filenames, different full paths) and drops
\* the File "src/./other.cc".
C15_Witness ==
    /\ FilterDone
    /\ Len(filterConfig.Targets) = 1
    /\ filterConfig.Targets[1].File = "demo.cc"
    /\ Len(report.Files) = 2
    /\ report.Files[1].FilePath = "src/./other.cc"
    /\ report.Files[1].Functions # << >>
    /\ report.Files[2].FilePath = "/abs/demo.cc"
    /\ Len(filtered.Files) = 1
    /\ filtered.Files[1].FilePath = "/abs/demo.cc"

\* The Functions the File handled last kept.
RetainedFunctions ==
    IF filteredFile = << >> THEN {} ELSE ElementsOf(filteredFile[1].Functions)

(***************************************************************************)
(* C16: function matching: a Function of a matched File is retained iff    *)
(* the allowed set contains its mangled name, or its full demangled name,  *)
(* or the base identifier of its demangled name (the part before the first *)
(* "("); the comparison is exact and case-sensitive, and an empty allowed  *)
(* set retains nothing.  So the allowed set {"f"} retains the Function     *)
(* "_Z1fv" with the demangled name "f()", and {"F"} does not.              *)
(***************************************************************************)
C16_FunctionMatching ==
    (FilterActive /\ FltHandled /\ MatchedTargets(FltHandledFile.FilePath) # {}) =>
        /\ \A fn \in ElementsOf(FltHandledFile.Functions) :
              fn \in RetainedFunctions <=>
                 \/ fn.Name \in allowedFunctions
                 \/ fn.DemangledName \in allowedFunctions
                 \/ \E b \in allowedFunctions : IsBaseIdentifierOf(b, fn.DemangledName)
        /\ allowedFunctions = {} => RetainedFunctions = {}
        /\ allowedFunctions = {"F"} => RetainedFunctions = {}

\* C16 witness: the File handled last lists "f()" and "g()", the allowed set is
\* {"f"}, and "f()" alone is retained.
C16_Witness ==
    /\ FltHandled
    /\ Len(FltHandledFile.Functions) = 2
    /\ allowedFunctions = {"f"}
    /\ RetainedFunctions = {[Name |-> "_Z1fv", DemangledName |-> "f()"]}

(***************************************************************************)
(* C17: line filtering with an active filter: in an output File each       *)
(* retained Line's function name is the mangled name of a Function of the  *)
(* input File that passes the function matching (so it belongs to a        *)
(* retained Function); a Line whose function name has no Function entry is *)
(* excluded, and every Line of a retained Function is kept.                *)
(***************************************************************************)
C17_LineFiltering ==
    (FilterActive /\ FltHandled /\ filteredFile # << >>) =>
        LET out == filteredFile[1]
            file == FltHandledFile
        IN /\ \A line \in ElementsOf(out.Lines) :
                 \E fn \in ElementsOf(file.Functions) :
                     /\ fn.Name = line.FunctionName
                     /\ PassesAllowed(fn, allowedFunctions)
                     /\ fn \in ElementsOf(out.Functions)
           /\ out.Lines =
                 SelectSeq(file.Lines,
                           LAMBDA line : \E fn \in ElementsOf(out.Functions) :
                                            fn.Name = line.FunctionName)

\* C17 witness: the File handled last has a Line of a retained Function and a
\* Line whose function has no Function entry; the first one alone is kept.
C17_Witness ==
    /\ FltHandled
    /\ filteredFile # << >>
    /\ Len(FltHandledFile.Lines) = 2
    /\ Len(filteredFile[1].Lines) = 1
    /\ \E m \in DOMAIN FltHandledFile.Lines :
          \A n \in DOMAIN FltHandledFile.Functions :
              FltHandledFile.Functions[n].Name # FltHandledFile.Lines[m].FunctionName

(***************************************************************************)
(* C18: with an active filter every File of the output has at least one    *)
(* retained Function: a matched File whose Functions all fail the function *)
(* matching is omitted, even if a Line of it names an allowed function.    *)
(***************************************************************************)
C18_NoFileWithoutFunction ==
    /\ FilterActive =>
          \A o \in DOMAIN filtered.Files : Len(filtered.Files[o].Functions) > 0
    /\ (/\ FilterActive
        /\ FltHandled
        /\ MatchedTargets(FltHandledFile.FilePath) # {}
        /\ \A fn \in ElementsOf(FltHandledFile.Functions) :
              ~PassesAllowed(fn, allowedFunctions))
          => filteredFile = << >>

\* C18 witness: the File handled last is matched and has a Line whose mangled
\* name the allowed set contains, but its one Function fails the matching:
\* the File is omitted.
C18_Witness ==
    /\ FltHandled
    /\ MatchedTargets(FltHandledFile.FilePath) # {}
    /\ Len(FltHandledFile.Functions) = 1
    /\ \E m \in DOMAIN FltHandledFile.Lines :
          FltHandledFile.Lines[m].FunctionName \in allowedFunctions
    /\ filteredFile = << >>
    /\ FilterDone
    /\ filtered.Files = << >>

(***************************************************************************)
(* C19: ApplyFilter copies the report's format version unchanged into its  *)
(* output, for every filter: absent, empty, matching or matching nothing.  *)
(***************************************************************************)
C19_FormatVersionCopied ==
    pc \in {"flt_loop", "flt_done"} => filtered.FormatVersion = report.FormatVersion

\* C19 witness: a finished call on a report of version "0.6" whose active
\* filter matches none of its Files.
C19_Witness ==
    /\ FilterDone
    /\ FilterActive
    /\ report.FormatVersion = "0.6"
    /\ report.Files # << >>
    /\ filtered = [FormatVersion |-> "0.6", Files |-> << >>]

IsFileOrderCut(cuts, n) ==
    /\ cuts[0] = 0
    /\ cuts[n] = Len(increases)
    /\ \A j \in 1..n :
          /\ cuts[j - 1] <= cuts[j]
          /\ \A a \in (cuts[j - 1] + 1)..cuts[j] :
                /\ increases[a].File = newReport.Files[j].FilePath
                /\ HasFunction(newReport.Files[j], increases[a].FunctionName)
                /\ \A b \in (cuts[j - 1] + 1)..cuts[j] :
                      increases[a].FunctionName = increases[b].FunctionName => a = b

C24_FollowsNewFilesOrder ==
    pc \in {"diff_loop", "diff_done"} =>
        /\ \E cuts \in [0..(i - 1) -> 0..Len(increases)] : IsFileOrderCut(cuts, i - 1)
        /\ Handled =>
              SubSeq(increases, Len(increases) - Len(Appended) + 1, Len(increases)) = Appended

\* C24 witness: a finished diff of new = [b.cpp, a.cpp], both with a newly
\* covered line: the record of b.cpp stands before that of a.cpp.
C24_Witness ==
    /\ pc = "diff_done"
    /\ Len(newReport.Files) = 2
    /\ newReport.Files[1].FilePath = "b.cpp"
    /\ newReport.Files[2].FilePath = "a.cpp"
    /\ Len(increases) = 2
    /\ increases[1].File = "b.cpp"
    /\ increases[2].File = "a.cpp"

(***************************************************************************)
(* C25: repeated Lines are last-write-wins.  For every File of base and of *)
(* new, buildLineCoverageMap has one entry per function name of the Lines, *)
(* under it one entry per distinct line number of the function, and the    *)
(* entry holds the count of the last Line of that (line number, function). *)
(* For a File that base has as well, the diff lists line n of function f   *)
(* exactly when the last base count of (n, f) is 0 and the last new count  *)
(* is > 0, and counts as covered the line numbers whose last count is > 0. *)
(***************************************************************************)
IsLastWriteMap(file) ==
    LET coverage == buildLineCoverageMap(file)
    IN /\ DOMAIN coverage = {f \in FuncNames : HasFunction(file, f)}
       /\ \A f \in DOMAIN coverage :
             /\ DOMAIN coverage[f] = LineNumbersOf(file, f)
             /\ \A n \in DOMAIN coverage[f] : coverage[f][n] = LastCount(file, f, n)

C25_LastWriteWins ==
    /\ \A m \in DOMAIN baseReport.Files : IsLastWriteMap(baseReport.Files[m])
    /\ \A m \in DOMAIN newReport.Files : IsLastWriteMap(newReport.Files[m])
    /\ (Handled /\ InBase(HandledFile.FilePath)) =>
          LET file == HandledFile
              baseFile == BaseFileOf(file.FilePath)
          IN \A f \in FuncNames :
                LET newly == {n \in LineNumbersOf(file, f) :
                                 LastCount(baseFile, f, n) = 0 /\ LastCount(file, f, n) > 0}
                IN /\ (newly = {}) <=> (RecordsOf(Appended, f) = {})
                   /\ \A j \in RecordsOf(Appended, f) :
                         /\ ElementsOf(Appended[j].IncreasedLineNumbers) = newly
                         /\ Len(Appended[j].IncreasedLineNumbers) = Cardinality(newly)
                         /\ Appended[j].NewCoveredLines =
                               Cardinality({n \in LineNumbersOf(file, f) :
                                               LastCount(file, f, n) > 0})
                         /\ Appended[j].OldCoveredLines =
                               Cardinality({n \in LineNumbersOf(file, f) :
                                               LastCount(baseFile, f, n) > 0})

\* C25 witness: the File handled is in base and in new; base holds the Lines
\* (n, f) of counts 1, 0 and new those of counts 0, 1: the last counts are 0
\* and 1, and the record lists n once.
C25_Witness ==
    /\ Handled
    /\ InBase(HandledFile.FilePath)
    /\ \E f \in FuncNames, n \in LineNumbers :
          LET file == HandledFile
              baseFile == BaseFileOf(file.FilePath)
          IN /\ Len(file.Lines) = 2
             /\ Len(baseFile.Lines) = 2
             /\ LineIndexes(file, f, n) = {1, 2}
             /\ LineIndexes(baseFile, f, n) = {1, 2}
             /\ baseFile.Lines[1].Count = 1 /\ baseFile.Lines[2].Count = 0
             /\ file.Lines[1].Count = 0 /\ file.Lines[2].Count = 1
             /\ Len(Appended) = 1
             /\ Appended[1].IncreasedLineNumbers = <<n>>
             /\ Appended[1].OldCoveredLines = 0
             /\ Appended[1].NewCoveredLines = 1
             /\ Appended[1].TotalLines = 2

(***************************************************************************)
(* C26: every record of result.Increases, from processNewFile and from     *)
(* compareFunctions alike, is consistent in itself: LinesIncreased is the  *)
(* length of IncreasedLineNumbers and at least 1, LinesIncreased <=        *)
(* NewCoveredLines <= TotalLines, and OldCoveredLines <= TotalLines.       *)
(***************************************************************************)
C26_RecordConsistent ==
    \A j \in DOMAIN increases :
        LET rec == increases[j]
        IN /\ rec.LinesIncreased = Len(rec.IncreasedLineNumbers)
           /\ rec.LinesIncreased >= 1
           /\ rec.LinesIncreased <= rec.NewCoveredLines
           /\ rec.NewCoveredLines <= rec.TotalLines
           /\ rec.OldCoveredLines >= 0
           /\ rec.OldCoveredLines <= rec.TotalLines

\* C26 witness: a finished diff with a record of compareFunctions for a
\* function of two Lines, one covered in base already and one newly covered.
C26_Witness ==
    /\ pc = "diff_done"
    /\ \E j \in DOMAIN increases :
          /\ InBase(increases[j].File)
          /\ increases[j].LinesIncreased = 1
          /\ increases[j].NewCoveredLines = 2
          /\ increases[j].OldCoveredLines = 1
          /\ increases[j].TotalLines = 2

\* C26 witness of the other path: a finished diff with a record of
\* processNewFile for a function with a covered and an uncovered Line.
C26_WitnessNewFile ==
    /\ pc = "diff_done"
    /\ \E j \in DOMAIN increases :
          /\ ~InBase(increases[j].File)
          /\ increases[j].LinesIncreased = 1
          /\ increases[j].NewCoveredLines = 1
          /\ increases[j].OldCoveredLines = 0
          /\ increases[j].TotalLines = 2

(***************************************************************************)
(* ComputeCoverageIncrease on one function with up to MaxWideLines Lines   *)
(* of line numbers 1..MaxWideLineNo per report: base holds no File or one, *)
(* new holds no File or one, of any path.                                  *)
(***************************************************************************)
WideLineSet == [LineNumber : 1..MaxWideLineNo, FunctionName : {"f"}, Count : Counts]

IsWideReport(r) ==
    \/ r = MakeReport(<< >>, << >>, << >>)
    \/ \E p \in Paths : \E lines \in SeqsUpTo(WideLineSet, MaxWideLines) :
          r = MakeReport(<<p>>, <<Len(lines)>>, lines)

InitDiffWide ==
    /\ pc = "diff_start"
    /\ IsWideReport(baseReport)
    /\ IsWideReport(newReport)
    /\ baseFileMap = EmptyMap
    /\ i = 0
    /\ increases = << >>
    /\ fileIncreases = << >>
    /\ report = [FormatVersion |-> "0.5", Files |-> << >>]
    /\ uncoveredMap = EmptyMap
    /\ funcMetadata = EmptyMap
    /\ k = 0
    /\ filePaths = << >>
    /\ resultFiles = << >>
    /\ NoFilterCall
    /\ err = "unset"
    /\ NoCommand
    /\ calls = << >>

SpecDiffWide == InitDiffWide /\ [][NextDiff]_vars

(***************************************************************************)
(* C27: in every record, NewCoveredLines - LinesIncreased <=               *)
(* OldCoveredLines, with equality exactly when no line number of the       *)
(* function in the new File has a base count > 0 and a new count of 0.     *)
(* NewCoveredLines >= OldCoveredLines may fail (C27_Witness).              *)
(***************************************************************************)
WentUncovered(file, f) ==
    \E m \in DOMAIN file.Lines :
        /\ file.Lines[m].FunctionName = f
        /\ BaseCount(file.FilePath, f, file.Lines[m].LineNumber) > 0
        /\ LastCount(file, f, file.Lines[m].LineNumber) = 0

C27_CoveredBefore ==
    Handled =>
        \A j \in DOMAIN Appended :
            LET rec == Appended[j]
            IN /\ rec.NewCoveredLines - rec.LinesIncreased <= rec.OldCoveredLines
               /\ (rec.NewCoveredLines - rec.LinesIncreased = rec.OldCoveredLines)
                     <=> ~WentUncovered(HandledFile, rec.FunctionName)

\* C27 witness: a record with NewCoveredLines < OldCoveredLines: two lines
\* covered in base have count 0 in new, a third one is newly covered.
C27_Witness ==
    /\ pc = "diff_done"
    /\ \E j \in DOMAIN increases :
          /\ increases[j].NewCoveredLines < increases[j].OldCoveredLines
          /\ increases[j].LinesIncreased = 1
          /\ increases[j].OldCoveredLines = 2

\* C27 witness of the equality: a record whose covered lines are the newly
\* covered one and one covered in base already.
C27_WitnessEquality ==
    /\ pc = "diff_done"
    /\ \E j \in DOMAIN increases :
          /\ increases[j].LinesIncreased = 1
          /\ increases[j].NewCoveredLines = 2
          /\ increases[j].OldCoveredLines = 1
          /\ increases[j].TotalLines = 3

(***************************************************************************)
(* C28: a File of new whose path base lacks gets the records it would get  *)
(* if base held a File of that path without Lines: the same set of records *)
(* with the same FunctionName, DemangledName, LinesIncreased, TotalLines,  *)
(* OldCoveredLines, NewCoveredLines and the same multiset of               *)
(* IncreasedLineNumbers -- for every File, repeated (line number, function *)
(* name) pairs included.                                                   *)
(***************************************************************************)
\* The record with IncreasedLineNumbers as a multiset: line number -> occurrences.
UpToLineOrder(rec) ==
    [rec EXCEPT !.IncreasedLineNumbers =
        [n \in ElementsOf(rec.IncreasedLineNumbers) |->
            Occurrences(rec.IncreasedLineNumbers, n)]]
SameRecordSet(recs1, recs2) ==
    {UpToLineOrder(recs1[j]) : j \in DOMAIN recs1}
        = {UpToLineOrder(recs2[j]) : j \in DOMAIN recs2}

\* The File base' holds for path p: no Lines, no Functions.
EmptyFile(p) == [FilePath |-> p, Lines |-> << >>, Functions |-> << >>]

\* What the File gets when base holds an empty File of its path, for every
\* order of the map walks of compareFunctions.
MissingAsEmpty(file, recs) ==
    LET newCoverage == buildLineCoverageMap(file)
    IN \A funcOrder \in RangeOrders(DOMAIN newCoverage) :
       \A lineOrders \in LineOrdersOf(newCoverage) :
          SameRecordSet(recs,
              compareFunctions(EmptyFile(file.FilePath), file, funcOrder, lineOrders))

C28_MissingAsEmpty ==
    (Handled /\ ~InBase(HandledFile.FilePath)) => MissingAsEmpty(HandledFile, Appended)

\* A (line number, function name) pair occurs on two Lines of file.
HasRepeatedLine(file) ==
    \E a, b \in DOMAIN file.Lines :
        /\ a # b
        /\ file.Lines[a].LineNumber = file.Lines[b].LineNumber
        /\ file.Lines[a].FunctionName = file.Lines[b].FunctionName

\* C28 on the Files without repeated pairs: there the two coincide.
C28_MissingAsEmptyNoRepeats ==
    (Handled /\ ~InBase(HandledFile.FilePath) /\ ~HasRepeatedLine(HandledFile))
        => MissingAsEmpty(HandledFile, Appended)

\* C28_MissingAsEmptyNoRepeats is about a state that is reached: a File absent
\* from base contributed records for two functions.
C28_NoRepeatsReached ==
    /\ Handled
    /\ ~InBase(HandledFile.FilePath)
    /\ ~HasRepeatedLine(HandledFile)
    /\ Len(Appended) = 2

(***************************************************************************)
(* C29: for every report, Files of one path included: the result holds at  *)
(* most one File entry per path, and every function record describes one   *)
(* input File of that path -- UncoveredLineNumbers are the line numbers of *)
(* that File's Lines of the function with count 0, TotalLines the number   *)
(* of its Lines of the function and CoveredLines the number of those with  *)
(* count > 0.                                                              *)
(***************************************************************************)
\* rec describes function rec.FunctionName of file.
DescribesFile(rec, file) ==
    LET ofFunction == {m \in DOMAIN file.Lines :
                          file.Lines[m].FunctionName = rec.FunctionName}
    IN /\ rec.TotalLines = Cardinality(ofFunction)
       /\ rec.CoveredLines = Cardinality({m \in ofFunction : file.Lines[m].Count > 0})
       /\ Len(rec.UncoveredLineNumbers)
             = Cardinality({m \in ofFunction : file.Lines[m].Count = 0})
       /\ \A n \in LineNumbers :
             Occurrences(rec.UncoveredLineNumbers, n)
                = Cardinality({m \in ofFunction : /\ file.Lines[m].LineNumber = n
                                                  /\ file.Lines[m].Count = 0})

C29_OneInputFilePerRecord ==
    /\ \A a, b \in DOMAIN resultFiles :
          resultFiles[a].FilePath = resultFiles[b].FilePath => a = b
    /\ \A ab \in UncoveredRecords :
          \E m \in DOMAIN report.Files :
              /\ report.Files[m].FilePath = resultFiles[ab[1]].FilePath
              /\ DescribesFile(RecordAt(ab), report.Files[m])

\* C29 on the reports whose Files have pairwise distinct paths.
C29_DistinctPaths == DistinctPaths => C29_OneInputFilePerRecord

\* C29_DistinctPaths is about a state that is reached: a finished call with
\* records for two Files.
C29_DistinctPathsReached ==
    /\ pc = "unc_done"
    /\ DistinctPaths
    /\ Len(resultFiles) = 2

(***************************************************************************)
(* ComputeCoverageIncrease(r, r): base and new are the same report.        *)
(***************************************************************************)
InitSelfDiff ==
    /\ pc = "diff_start"
    /\ IsReport(newReport, MaxNewFiles, MaxLines)
    /\ baseReport = newReport
    /\ baseFileMap = EmptyMap
    /\ i = 0
    /\ increases = << >>
    /\ fileIncreases = << >>
    /\ report = [FormatVersion |-> "0.5", Files |-> << >>]
    /\ uncoveredMap = EmptyMap
    /\ funcMetadata = EmptyMap
    /\ k = 0
    /\ filePaths = << >>
    /\ resultFiles = << >>
    /\ NoFilterCall
    /\ err = "unset"
    /\ NoCommand
    /\ calls = << >>

SpecSelfDiff == InitSelfDiff /\ [][BuildBaseFileMap \/ CompareFunctions \/ DiffReturn]_vars

(***************************************************************************)
(* C30: when, for every File of new, function f and line number n, the new *)
(* count of (n, f) is > 0 only where the base count is > 0, the diff       *)
(* returns no record; in particular ComputeCoverageIncrease(r, r) returns  *)
(* none for a report r of pairwise distinct paths.                         *)
(***************************************************************************)
DistinctNewPaths ==
    \A a, b \in DOMAIN newReport.Files :
        newReport.Files[a].FilePath = newReport.Files[b].FilePath => a = b

NoGain ==
    \A m \in DOMAIN newReport.Files : \A f \in FuncNames, n \in LineNumbers :
        LastCount(newReport.Files[m], f, n) > 0
            => BaseCount(newReport.Files[m].FilePath, f, n) > 0

C30_EmptyWithoutGain ==
    /\ (baseReport = newReport /\ DistinctNewPaths) => NoGain
    /\ NoGain => increases = << >>

\* The first half of C30 alone: the self-diff of a report of distinct paths.
C30_SelfDiffEmpty ==
    (baseReport = newReport /\ DistinctNewPaths) => increases = << >>

\* C30_SelfDiffEmpty is about a state that is reached: the finished self-diff
\* of two Files, one with a repeated (line number, function name) pair.
C30_SelfDiffReached ==
    /\ pc = "diff_done"
    /\ baseReport = newReport
    /\ DistinctNewPaths
    /\ Len(newReport.Files) = 2
    /\ \E m \in DOMAIN newReport.Files :
          /\ HasRepeatedLine(newReport.Files[m])
          /\ \E a \in DOMAIN newReport.Files[m].Lines :
                newReport.Files[m].Lines[a].Count > 0

\* C30 with the new counts taken Line by Line: no Line of new has a count > 0
\* where the base count is 0.
NoGainOfAnyLine ==
    \A m \in DOMAIN newReport.Files : \A a \in DOMAIN newReport.Files[m].Lines :
        LET line == newReport.Files[m].Lines[a]
        IN line.Count > 0
              => BaseCount(newReport.Files[m].FilePath, line.FunctionName, line.LineNumber) > 0
C30_EmptyWithoutGainOfAnyLine == NoGainOfAnyLine => increases = << >>

(***************************************************************************)
(* The engines called more than once: when a call has returned, the caller *)
(* calls the same engine again with the reports it passed before.  Every   *)
(* call builds its maps and its result anew (diff.go:10-15, 220-228); the  *)
(* package has no variables of its own.                                    *)
(***************************************************************************)
DiffCallAgain ==
    /\ pc = "diff_done"
    /\ argv.cmd = "none"
    /\ Len(calls) + 1 < MaxCalls
    /\ calls' = Append(calls, [engine |-> "ComputeCoverageIncrease",
                               args   |-> <<baseReport, newReport>>,
                               result |-> increases])
    /\ baseFileMap' = EmptyMap
    /\ i' = 0
    /\ increases' = << >>
    /\ fileIncreases' = << >>
    /\ err' = "unset"
    /\ pc' = "diff_start"
    /\ UNCHANGED <<baseReport, newReport, uncoveredVars, filterVars, commandVars>>

UncoveredCallAgain ==
    /\ pc = "unc_done"
    /\ argv.cmd = "none"
    /\ Len(calls) + 1 < MaxCalls
    /\ calls' = Append(calls, [engine |-> "FindUncoveredLines",
                               args   |-> <<report>>,
                               result |-> resultFiles])
    /\ uncoveredMap' = EmptyMap
    /\ funcMetadata' = EmptyMap
    /\ k' = 1
    /\ filePaths' = << >>
    /\ resultFiles' = << >>
    /\ err' = "unset"
    /\ pc' = "unc_first"
    /\ UNCHANGED <<report, diffVars, filterVars, commandVars>>

InitCalls == InitDiff \/ InitUncovered

NextCalls == NextDiff \/ NextUncovered \/ DiffCallAgain \/ UncoveredCallAgain

SpecCalls == InitCalls /\ [][NextCalls]_vars

(***************************************************************************)
(* C21: purity.  The engines leave the reports they are given unchanged,   *)
(* and they keep no state between calls: a call returns what every earlier *)
(* call with the same arguments returned.                                  *)
(***************************************************************************)
C21_ResultOfArgumentsOnly ==
    /\ pc = "diff_done" =>
          \A c \in DOMAIN calls :
              calls[c].args = <<baseReport, newReport>> => calls[c].result = increases
    /\ pc = "unc_done" =>
          \A c \in DOMAIN calls :
              calls[c].args = <<report>> => calls[c].result = resultFiles

\* The first half of C21: no step of an engine changes a report it was given.
C21_InputsUnchanged ==
    [][baseReport' = baseReport /\ newReport' = newReport /\ report' = report]_vars

\* The second half of C21 up to the order of the map walks: a call returns the
\* records every earlier call with the same arguments returned, the Increase
\* Records and each File's function records in any order, IncreasedLineNumbers
\* in any order.
SameFunctionRecords(files1, files2) ==
    /\ Len(files1) = Len(files2)
    /\ \A a \in DOMAIN files1 :
          /\ files1[a].FilePath = files2[a].FilePath
          /\ Len(files1[a].UncoveredFunctions) = Len(files2[a].UncoveredFunctions)
          /\ ElementsOf(files1[a].UncoveredFunctions)
                = ElementsOf(files2[a].UncoveredFunctions)

C21_ResultUpToOrder ==
    /\ pc = "diff_done" =>
          \A c \in DOMAIN calls :
              /\ calls[c].args = <<baseReport, newReport>>
              /\ Len(calls[c].result) = Len(increases)
              /\ SameRecordSet(calls[c].result, increases)
    /\ pc = "unc_done" =>
          \A c \in DOMAIN calls :
              /\ calls[c].args = <<report>>
              /\ SameFunctionRecords(calls[c].result, resultFiles)

\* C21_ResultUpToOrder is about a state that is reached: a second call has
\* returned two records, as the first call did.
C21_SecondCallReached ==
    /\ pc = "diff_done"
    /\ Len(calls) = 1
    /\ Len(increases) = 2
    /\ Len(calls[1].result) = 2

(***************************************************************************)
(* The commands diff (cmd/diff.go) and uncovered (cmd/uncovered.go), and   *)
(* ParseReport (pkg/gcovr/parser.go).  A command line is the command, the  *)
(* flags it gives (flag name -> value) and its positional arguments.  A    *)
(* file is unreadable, malformed (not JSON / YAML, or not of the expected  *)
(* shape) or a document, which is modelled by its keys.                    *)
(***************************************************************************)
CommandLines ==
    { [cmd |-> "diff", flags |-> [base |-> "base.json", new |-> "new.json"],
       args |-> << >>],
      [cmd |-> "diff",
       flags |-> [base |-> "base.json", new |-> "new.json", filter |-> "filter.yaml"],
       args |-> << >>],
      [cmd |-> "uncovered", flags |-> << >>, args |-> <<"report.json">>],
      [cmd |-> "uncovered", flags |-> [filter |-> "filter.yaml"],
       args |-> <<"report.json">>] }

\* The flags the commands register; a flag that is not given has the value "".
DiffFlags == {"base", "new"}
UncoveredFlags == {"filter"}
FlagValue(name) == IF name \in DOMAIN argv.flags THEN argv.flags[name] ELSE ""

\* The reports the files of a command line may hold.
CmdReports ==
    UNION {UNION {UNION {
        {MakeReport(paths, lens, lines) : lines \in [1..SumUpTo(lens, nf) -> LineSet]} :
            lens \in {l \in [1..nf -> 0..MaxCmdLines] : SumUpTo(l, nf) <= MaxCmdLines}} :
            paths \in [1..nf -> Paths]} :
            nf \in 0..MaxCmdFiles}

\* The JSON document of a report, by the keys of the struct tags.
JsonOfReport(r) ==
    ("gcovr/format_version" :> r.FormatVersion) @@
    [files |->
        [j \in DOMAIN r.Files |->
            [file  |-> r.Files[j].FilePath,
             lines |-> [m \in DOMAIN r.Files[j].Lines |->
                          [line_number   |-> r.Files[j].Lines[m].LineNumber,
                           function_name |-> r.Files[j].Lines[m].FunctionName,
                           count         |-> r.Files[j].Lines[m].Count]],
             functions |-> [n \in DOMAIN r.Files[j].Functions |->
                              [name           |-> r.Files[j].Functions[n].Name,
                               demangled_name |-> r.Files[j].Functions[n].DemangledName]]]]]

\* The targets a filter config file may list, and its YAML document; the
\* section "compiler" is there and is not read.
CmdTargetSet ==
    [file : {"a.cpp", "demo.cc"}, functions : SeqsUpTo({"f", "g"}, 1)]
YamlOfTargets(targets) ==
    [compiler |-> [path |-> "/usr/bin/gcc"], targets |-> targets]

Unreadable == [kind |-> "unreadable", doc |-> << >>]
Malformed == [kind |-> "malformed", doc |-> << >>]
ReportContents ==
    {Unreadable, Malformed}
        \cup {[kind |-> "document", doc |-> JsonOfReport(r)] : r \in CmdReports}
ConfigContents ==
    {Unreadable, Malformed}
        \cup {[kind |-> "document", doc |-> YamlOfTargets(t)] :
                 t \in SeqsUpTo(CmdTargetSet, MaxCmdTargets)}

\* json.Unmarshal(data, &report)
UnmarshalReport(doc) ==
    [FormatVersion |-> doc["gcovr/format_version"],
     Files |->
        [j \in DOMAIN doc.files |->
            [FilePath  |-> doc.files[j].file,
             Lines     |-> [m \in DOMAIN doc.files[j].lines |->
                              [LineNumber   |-> doc.files[j].lines[m].line_number,
                               FunctionName |-> doc.files[j].lines[m].function_name,
                               Count        |-> doc.files[j].lines[m].count]],
             Functions |-> [n \in DOMAIN doc.files[j].functions |->
                              [Name          |-> doc.files[j].functions[n].name,
                               DemangledName |-> doc.files[j].functions[n].demangled_name]]]]]

NilReport == [FormatVersion |-> "", Files |-> << >>]

\* Mutant of ParseReport: the error of json.Unmarshal is dropped and the
\* zero report is returned.
ParseReport_UnmarshalErrorDropped(filePath) ==
    LET data == fs[filePath]
    IN IF data.kind = "unreadable"
       THEN [report |-> NilReport, err |-> "failed to read file"]
       ELSE IF data.kind = "malformed"
            THEN [report |-> NilReport, err |-> "nil"]
            ELSE [report |-> UnmarshalReport(data.doc), err |-> "nil"]

\* ParseReport: the report and the error it returns.
ParseReport(filePath) ==
    LET data == fs[filePath]
    IN IF data.kind = "unreadable"
       THEN [report |-> NilReport, err |-> "failed to read file"]
       ELSE IF data.kind = "malformed"
            THEN [report |-> NilReport, err |-> "failed to parse JSON"]
            ELSE [report |-> UnmarshalReport(data.doc), err |-> "nil"]

\* ParseFilterConfig: the filter specification of the YAML document (its
\* targets, each with its file and the set of its function identifiers) and
\* the error it returns.
ParseFilterConfig(filePath) ==
    LET data == fs[filePath]
    IN IF data.kind = "unreadable"
       THEN [config |-> NilConfig, err |-> "failed to read file"]
       ELSE IF data.kind = "malformed"
            THEN [config |-> NilConfig, err |-> "failed to parse YAML"]
            ELSE [config |->
                     [IsNil   |-> FALSE,
                      Targets |-> [j \in DOMAIN data.doc.targets |->
                                     [File      |-> data.doc.targets[j].file,
                                      Functions |-> ElementsOf(data.doc.targets[j].functions)]]],
                  err |-> "nil"]

\* fmt.Errorf(context + ": %w", cause)
Errorf(context, cause) ==
    CASE context = "failed to parse base report" /\ cause = "failed to read file" ->
            "failed to parse base report: failed to read file"
      [] context = "failed to parse base report" /\ cause = "failed to parse JSON" ->
            "failed to parse base report: failed to parse JSON"
      [] context = "failed to parse new report" /\ cause = "failed to read file" ->
            "failed to parse new report: failed to read file"
      [] context = "failed to parse new report" /\ cause = "failed to parse JSON" ->
            "failed to parse new report: failed to parse JSON"
      [] context = "failed to parse report" /\ cause = "failed to read file" ->
            "failed to parse report: failed to read file"
      [] context = "failed to parse report" /\ cause = "failed to parse JSON" ->
            "failed to parse report: failed to parse JSON"
      [] context = "failed to parse filter config" /\ cause = "failed to read file" ->
            "failed to parse filter config: failed to read file"
      [] context = "failed to parse filter config" /\ cause = "failed to parse YAML" ->
            "failed to parse filter config: failed to parse YAML"
      [] OTHER -> context

\* "%.1f" of covered * 100 / total, 0.0 when total is 0: the tenths, rounded
\* to the nearest (the quotient is halfway between two tenths only when 16
\* divides the total).
Percent(covered, total) ==
    LET tenths == IF total > 0 THEN (covered * 2000 + total) \div (2 * total) ELSE 0
    IN <<ToString(tenths \div 10), ".", ToString(tenths % 10)>>

\* "%v" of a slice of ints: "[1 2]".
RECURSIVE IntsSpaced(_, _)
IntsSpaced(s, n) ==
    IF n > Len(s) THEN << >>
    ELSE (IF n > 1 THEN <<" ">> ELSE << >>) \o <<ToString(s[n])>> \o IntsSpaced(s, n + 1)
IntList(s) == <<"[">> \o IntsSpaced(s, 1) \o <<"]">>

\* FormatReport, the loop over report.Increases: seven lines per record.
RECURSIVE FormatIncreases(_, _)
FormatIncreases(incs, n) ==
    IF n > Len(incs) THEN << >>
    ELSE LET inc == incs[n]
         IN << <<ToString(n), ". File: ", inc.File>>,
               <<"   Function: ", inc.DemangledName>>,
               <<"   Old Coverage: ", ToString(inc.OldCoveredLines), "/",
                 ToString(inc.TotalLines), " lines (">>
                   \o Percent(inc.OldCoveredLines, inc.TotalLines) \o <<"%)">>,
               <<"   New Coverage: ", ToString(inc.NewCoveredLines), "/",
                 ToString(inc.TotalLines), " lines (">>
                   \o Percent(inc.NewCoveredLines, inc.TotalLines) \o <<"%)">>,
               <<"   Lines Increased: ", ToString(inc.LinesIncreased)>>,
               <<"   Newly Covered Line Numbers: ">> \o IntList(inc.IncreasedLineNumbers),
               <<"">> >>
             \o FormatIncreases(incs, n + 1)

\* FormatReport: the lines of the text, each the sequence of its pieces.
FormatReport(incs) ==
    IF Len(incs) = 0 THEN << <<"No coverage increases found.">> >>
    ELSE << <<"Coverage Increase Report">>,
            <<"=========================">>,
            <<"">>,
            <<"Found ", ToString(Len(incs)), " function(s) with increased coverage:">>,
            <<"">> >>
         \o FormatIncreases(incs, 1)

\* The function records of an UncoveredReport in the order of its two loops,
\* each with the path of its File.
RECURSIVE UncoveredEntries(_, _)
UncoveredEntries(files, a) ==
    IF a > Len(files) THEN << >>
    ELSE [b \in DOMAIN files[a].UncoveredFunctions |->
             [FilePath |-> files[a].FilePath, fn |-> files[a].UncoveredFunctions[b]]]
         \o UncoveredEntries(files, a + 1)

RECURSIVE TotalUncoveredLines(_, _)
TotalUncoveredLines(entries, n) ==
    IF n > Len(entries) THEN 0
    ELSE Len(entries[n].fn.UncoveredLineNumbers) + TotalUncoveredLines(entries, n + 1)

\* FormatUncoveredReport, the loops over the Files and their functions: five
\* lines per function record.
RECURSIVE FormatUncovered(_, _)
FormatUncovered(entries, n) ==
    IF n > Len(entries) THEN << >>
    ELSE LET fn == entries[n].fn
         IN << <<ToString(n), ". File: ", entries[n].FilePath>>,
               <<"   Function: ", fn.DemangledName>>,
               <<"   Coverage: ", ToString(fn.CoveredLines), "/",
                 ToString(fn.TotalLines), " lines (">>
                   \o Percent(fn.CoveredLines, fn.TotalLines) \o <<"%)">>,
               <<"   Uncovered Lines (", ToString(Len(fn.UncoveredLineNumbers)), "): ">>
                   \o IntList(fn.UncoveredLineNumbers),
               <<"">> >>
             \o FormatUncovered(entries, n + 1)

\* FormatUncoveredReport
FormatUncoveredReport(files) ==
    IF Len(files) = 0
    THEN << <<"No uncovered lines found. All lines have coverage!">> >>
    ELSE LET entries == UncoveredEntries(files, 1)
         IN << <<"Uncovered Lines Report">>,
               <<"======================">>,
               <<"">>,
               <<"Found ", ToString(Len(entries)), " function(s) with uncovered lines (",
                 ToString(TotalUncoveredLines(entries, 1)), " total uncovered lines):">>,
               <<"">> >>
            \o FormatUncovered(entries, 1)

\* The command returns the error e; out is what it has printed.
ReturnError(e, out) ==
    /\ err' = e
    /\ stdout' = out
    /\ pc' = "cmd_done"
    /\ UNCHANGED <<diffVars, uncoveredVars, filterVars, argv, fs, calls>>

\* The diff command up to the call of ComputeCoverageIncrease: the flags are
\* checked against the registered ones, then runDiff parses the two reports.
RunDiff ==
    /\ pc = "cmd_start"
    /\ argv.cmd = "diff"
    /\ LET baseFile == FlagValue("base")
           newFile == FlagValue("new")
           out1 == Append(stdout, <<"Reading base report: ", baseFile>>)
           base == ParseReport(baseFile)
           out2 == Append(out1, <<"Reading new report: ", newFile>>)
           new == ParseReport(newFile)
       IN IF ~(DOMAIN argv.flags \subseteq DiffFlags)
          THEN ReturnError("unknown flag", stdout)
          ELSE IF base.err # "nil"
          THEN ReturnError(Errorf("failed to parse base report", base.err), out1)
          ELSE IF new.err # "nil"
          THEN ReturnError(Errorf("failed to parse new report", new.err), out2)
          ELSE /\ baseReport' = base.report
               /\ newReport' = new.report
               /\ stdout' = out2 \o << <<"">>, <<"Computing coverage increases...">>, <<"">> >>
               /\ pc' = "diff_start"
               /\ UNCHANGED <<baseFileMap, i, increases, fileIncreases, uncoveredVars,
                              filterVars, err, argv, fs, calls>>

\* runDiff, lines 55-64: the result of ComputeCoverageIncrease is displayed.
RunDiffDisplay ==
    /\ pc = "diff_done"
    /\ argv.cmd = "diff"
    /\ IF err # "nil"
       THEN ReturnError("failed to compute coverage increase", stdout)
       ELSE /\ stdout' = stdout \o FormatReport(increases)
            /\ pc' = "cmd_done"
            /\ UNCHANGED <<diffVars, uncoveredVars, filterVars, err, argv, fs, calls>>

\* The uncovered command up to the call of ApplyFilter or, without a filter,
\* of FindUncoveredLines: flags and arguments are checked, then runUncovered
\* parses the report and the filter config.
RunUncovered ==
    /\ pc = "cmd_start"
    /\ argv.cmd = "uncovered"
    /\ LET reportFile == argv.args[1]
           out1 == Append(stdout, <<"Reading report: ", reportFile>>)
           parsed == ParseReport(reportFile)
           uncoveredFilterFile == FlagValue("filter")
           out2 == Append(out1, <<"Reading filter config: ", uncoveredFilterFile>>)
           config == ParseFilterConfig(uncoveredFilterFile)
       IN IF ~(DOMAIN argv.flags \subseteq UncoveredFlags)
          THEN ReturnError("unknown flag", stdout)
          ELSE IF Len(argv.args) # 1
          THEN ReturnError("accepts 1 arg(s)", stdout)
          ELSE IF parsed.err # "nil"
          THEN ReturnError(Errorf("failed to parse report", parsed.err), out1)
          ELSE IF uncoveredFilterFile # ""
          THEN IF config.err # "nil"
               THEN ReturnError(Errorf("failed to parse filter config", config.err), out2)
               ELSE /\ report' = parsed.report
                    /\ filterConfig' = config.config
                    /\ stdout' = Append(out2, <<"Filtering enabled: tracking ",
                                                ToString(Len(config.config.Targets)),
                                                " file(s)">>)
                    /\ pc' = "flt_start"
                    /\ UNCHANGED <<uncoveredMap, funcMetadata, k, filePaths, resultFiles,
                                   filterMap, fi, allowedFunctions, filteredFile, filtered,
                                   diffVars, err, argv, fs, calls>>
          ELSE /\ report' = parsed.report
               /\ stdout' = out1 \o << <<"">>, <<"Analyzing coverage...">>, <<"">> >>
               /\ k' = 1
               /\ pc' = "unc_first"
               /\ UNCHANGED <<uncoveredMap, funcMetadata, filePaths, resultFiles,
                              filterVars, diffVars, err, argv, fs, calls>>

\* runUncovered, lines 57-63: the report ApplyFilter returned replaces the
\* parsed one and FindUncoveredLines is called with it.
RunUncoveredFiltered ==
    /\ pc = "flt_done"
    /\ argv.cmd = "uncovered"
    /\ report' = filtered
    /\ stdout' = stdout \o << <<"Applying filters...">>,
                              <<"">>, <<"Analyzing coverage...">>, <<"">> >>
    /\ k' = 1
    /\ pc' = "unc_first"
    /\ UNCHANGED <<uncoveredMap, funcMetadata, filePaths, resultFiles,
                   filterVars, diffVars, err, argv, fs, calls>>

\* runUncovered, lines 63-72: the result of FindUncoveredLines is displayed.
RunUncoveredDisplay ==
    /\ pc = "unc_done"
    /\ argv.cmd = "uncovered"
    /\ IF err # "nil"
       THEN ReturnError("failed to find uncovered lines", stdout)
       ELSE /\ stdout' = stdout \o FormatUncoveredReport(resultFiles)
            /\ pc' = "cmd_done"
            /\ UNCHANGED <<diffVars, uncoveredVars, filterVars, err, argv, fs, calls>>

\* The files a command line names, with any content.
FileNames(line) ==
    {line.flags[f] : f \in DOMAIN line.flags} \cup {line.args[a] : a \in DOMAIN line.args}
ContentsOf(name) == IF name = "filter.yaml" THEN ConfigContents ELSE ReportContents
RECURSIVE FileSystems(_)
FileSystems(names) ==
    IF names = {} THEN {<< >>}
    ELSE LET name == CHOOSE n \in names : TRUE
         IN {(name :> c) @@ files : c \in ContentsOf(name),
                                   files \in FileSystems(names \ {name})}

InitCommands ==
    /\ pc = "cmd_start"
    /\ argv \in CommandLines
    /\ fs \in FileSystems(FileNames(argv))
    /\ stdout = << >>
    /\ calls = << >>
    /\ baseReport = NilReport
    /\ newReport = NilReport
    /\ baseFileMap = EmptyMap
    /\ i = 0
    /\ increases = << >>
    /\ fileIncreases = << >>
    /\ report = NilReport
    /\ uncoveredMap = EmptyMap
    /\ funcMetadata = EmptyMap
    /\ k = 0
    /\ filePaths = << >>
    /\ resultFiles = << >>
    /\ NoFilterCall
    /\ err = "unset"

NextCommands ==
    \/ RunDiff \/ RunDiffDisplay
    \/ RunUncovered \/ RunUncoveredFiltered \/ RunUncoveredDisplay
    \/ NextDiff \/ NextUncovered \/ NextFilter

SpecCommands == InitCommands /\ [][NextCommands]_vars

(***************************************************************************)
(* Vocabulary of the properties of the commands.                           *)
(***************************************************************************)
CommandDone == pc = "cmd_done"
\* The first pieces of the lines FormatReport and FormatUncoveredReport open
\* their text with.
ReportTextOpenings ==
    {"Coverage Increase Report", "No coverage increases found.",
     "Uncovered Lines Report", "No uncovered lines found. All lines have coverage!"}
ReportTextPrinted == \E n \in DOMAIN stdout : stdout[n][1] \in ReportTextOpenings
Unparsable(name) == fs[name].kind # "document"

(***************************************************************************)
(* C22: the diff command run with a filter config (--filter) reports       *)
(* coverage increases only for the functions listed under the files listed *)
(* in the targets of the config: once the command has ended on a command   *)
(* line with --filter whose three files all parse, it has succeeded, it    *)
(* has printed the report text, and every record it reports is of a file   *)
(* and a function that a target of the config lists (any record, when the  *)
(* config has no targets).                                                 *)
(***************************************************************************)
DiffWithFilterEnded ==
    /\ CommandDone
    /\ argv.cmd = "diff"
    /\ "filter" \in DOMAIN argv.flags
    /\ \A name \in DOMAIN fs : ~Unparsable(name)
ListedInTargets(rec, targets) ==
    \/ Len(targets) = 0
    \/ \E n \in DOMAIN targets :
          /\ TargetMatches(targets[n], rec.File)
          /\ PassesAllowed([Name |-> rec.FunctionName, DemangledName |-> rec.DemangledName],
                           targets[n].Functions)
C22_DiffWithFilter ==
    DiffWithFilterEnded =>
        /\ err = "nil"
        /\ ReportTextPrinted
        /\ \A n \in DOMAIN increases :
              ListedInTargets(increases[n],
                              ParseFilterConfig(FlagValue("filter")).config.Targets)

\* What the command does on such a command line: it ends with the error of
\* an unknown flag, having parsed no file, computed no diff and printed
\* nothing.
C22_FilterFlagUnknown ==
    DiffWithFilterEnded =>
        /\ err = "unknown flag"
        /\ stdout = << >>
        /\ i = 0
        /\ increases = << >>
C22_FilterFlagReached ==
    /\ DiffWithFilterEnded
    /\ Len(fs["new.json"].doc.files) > 0
    /\ Len(fs["filter.yaml"].doc.targets) > 0

(***************************************************************************)
(* C23: abort on boundary failure: when a file the command parses (the     *)
(* base report, the new report, the single report, the filter config) does *)
(* not parse, the command goes from its start to its end only: no step of  *)
(* ApplyFilter, ComputeCoverageIncrease or FindUncoveredLines is taken, no *)
(* report text is printed, and the command ends with the error of a parse  *)
(* that failed.                                                            *)
(***************************************************************************)
\* The files the command parses, each with the context runDiff or
\* runUncovered wraps its error in.
FilesParsed ==
    IF argv.cmd = "diff"
    THEN IF DOMAIN argv.flags \subseteq DiffFlags
         THEN {[name |-> FlagValue("base"), context |-> "failed to parse base report"],
               [name |-> FlagValue("new"), context |-> "failed to parse new report"]}
         ELSE {}
    ELSE {[name |-> argv.args[1], context |-> "failed to parse report"]}
         \cup (IF FlagValue("filter") # ""
               THEN {[name |-> FlagValue("filter"),
                      context |-> "failed to parse filter config"]}
               ELSE {})
FailedParses == {f \in FilesParsed : Unparsable(f.name)}
\* The error the parse of the file fails with.
CauseOf(f) ==
    IF fs[f.name].kind = "unreadable" THEN "failed to read file"
    ELSE IF f.context = "failed to parse filter config" THEN "failed to parse YAML"
    ELSE "failed to parse JSON"
EngineInvoked == pc \notin {"cmd_start", "cmd_done"} \/ i > 0 \/ k > 0
C23_AbortOnParseFailure ==
    FailedParses # {} =>
        /\ ~EngineInvoked
        /\ ~ReportTextPrinted
        /\ CommandDone => \E f \in FailedParses : err = Errorf(f.context, CauseOf(f))

\* The uncovered command has ended on a report that parses and has a File
\* and a filter config that is not YAML.
C23_Witness ==
    /\ CommandDone
    /\ argv.cmd = "uncovered"
    /\ ~Unparsable("report.json")
    /\ Len(fs["report.json"].doc.files) > 0
    /\ FlagValue("filter") = "filter.yaml"
    /\ fs["filter.yaml"].kind = "malformed"
    /\ err = "failed to parse filter config: failed to parse YAML"
    /\ stdout = << <<"Reading report: ", "report.json">>,
                   <<"Reading filter config: ", "filter.yaml">> >>
\* The diff command has ended on a base report that parses and a new report
\* that cannot be read.
C23_WitnessDiff ==
    /\ CommandDone
    /\ argv.cmd = "diff"
    /\ ~Unparsable("base.json")
    /\ fs["new.json"].kind = "unreadable"
    /\ err = "failed to parse new report: failed to read file"
    /\ Len(stdout) = 2
\* The first parse that fails ends the command: with two reports that do not
\* parse the error is that of the base report.
C23_FirstFailureReturned ==
    (CommandDone /\ argv.cmd = "diff" /\ DOMAIN argv.flags \subseteq DiffFlags
        /\ Unparsable("base.json"))
        => err = Errorf("failed to parse base report", CauseOf([name |-> "base.json",
                             context |-> "failed to parse base report"]))

====
